---- MODULE Spec2Model ----
(***************************************************************************)
(* Entry Annotation Engine of the Feedly AI overlay extension.             *)
(*                                                                         *)
(* Spec   : the content script (src/unnamed/part_002): the host document,  *)
(*          STATE.pending, STATE.itemCache, the scan scheduler, the fast   *)
(*          path of the mutation observer, the get_scores callbacks and    *)
(*          renderItem.  The messaging channel answers every request with  *)
(*          an arbitrary response map or with a channel failure.           *)
(* SpecBg : the background worker (src/extension/background.js): the TTL   *)
(*          cache, the get_scores handler and the native host, under a     *)
(*          clock.                                                         *)
(* SpecItem, SpecCont, SpecSched, SpecClick : the content script on an    *)
(*          item in every view mode (SpecCont without its semantic-search  *)
(*          callbacks), its scan scheduler under fair timers, and the      *)
(*          Analyze and Summary controls under user clicks.                *)
(* SpecBadge : the badge renderItem makes of a score.                      *)
(* SpecShape, SpecNative, SpecSum : the background worker on both shapes   *)
(*          of get_scores, on every message type that calls the native    *)
(*          host, and on one summarize_article request and its stream.    *)
(* SpecTip, SpecPos : the score tooltip under clicks, and its position    *)
(*          for every pointer position and measured size.                  *)
(* SpecPlace : ensureBadgeContainer on an entry in every structure.        *)
(* SpecId : getEntryId on every combination of identity sources.           *)
(* SpecAnnot, SpecSettled : the content script on a list whose items the  *)
(*          host replaces, under fair passes and responses, and on one    *)
(*          item that the host opens and re-renders.                       *)
(* SpecPanel : the revision of the content script in                      *)
(*          src/extension/content.js (lines 619-1167), whose scan adds a  *)
(*          summary panel to opened items.                                 *)
(* SpecAnalyze : the Analyze control, the background cache and get_scores  *)
(*          together.                                                      *)
(* SpecWindow, SpecRender : the Summary actions of one window with         *)
(*          summaryStates and the side panel (src/extension/sidepanel.js), *)
(*          and the side panel alone under every update_sidepanel message. *)
(***************************************************************************)
EXTENDS Integers, Sequences, FiniteSets, TLC

\* ------------------------------------------------------------------ bounds
MaxNodes == 2          \* content items the host ever creates (Spec)
MaxOpen == 1           \* content items the host ever creates (SpecItem)
MaxBatch == 2          \* entries introduced by one change batch
MaxLoading == 1        \* the host stops replacing engine UI once an item holds this many loading blocks
MaxMsgs == 2           \* get_scores messages between page and background at once (SpecBg)
MaxTime == 30001       \* the clock stops here, in ms (SpecBg)
MaxClicks == 1         \* on-demand requests of one item in flight at once (SpecClick)
MaxScore == 500        \* the largest score, in hundredths (SpecBadge)
MaxCalls == 1          \* messages of any type the background holds at once (SpecNative)
MaxReads == 2          \* reads of one response stream that return a chunk (SpecSum)
MaxLines == 2          \* lines of one chunk
MaxView == 11          \* window.innerWidth and innerHeight, in px (SpecTip, SpecPos)
MaxSize == 3           \* the largest width and height of the tooltip, in px
MaxHandlers == 2       \* close handlers registered or about to be, at once
MaxOverlap == 2        \* Summary actions of one window (SpecWindow)

\* ------------------------------------------------------- identities, values
Ids == {"a1", "a2"}
NoId == "unresolvable"     \* getEntryId returns null
BadId == "throws"          \* getEntryId raises (malformed percent-encoding in the permalink)
IdKinds == Ids \cup {NoId, BadId}

Absent == "absent"         \* items[id] undefined / Map.get miss
NoNode == 0                \* Map.get(id) miss in STATE.pending / map

\* A verdict as renderItem reads it: found, data.reason, data.summary.
Verdicts == {"notfound", "plain", "rich"}
Found(v) == v \in {"plain", "rich"}          \* item.found
HasReason(v) == v = "rich"                   \* item.data?.reason
HasSummary(v) == v = "rich"                  \* item.data?.summary

\* View modes of an entry, by what renderItem and scanEntries probe.
Views == {"compact", "selected", "detail"}
HasInfo(v) == v = "detail"                       \* .EntryInfo present
IsExpanded(v) == v = "selected"                  \* entry--selected / entry--expanded
HasBody(v) == v \in {"selected", "detail"}     \* .EntryBody present
ViewRank(v) == CASE v = "compact" -> 0 [] v = "selected" -> 1 [] v = "detail" -> 2

VARIABLES
  nodes,          \* the content items, in document order
  pending,        \* STATE.pending : identity -> node
  itemCache,      \* STATE.itemCache : identity -> verdict
  reqs,           \* get_scores requests sent and not yet called back
  scheduled,      \* STATE.scheduled
  debounceTimer,  \* debounceTimer # null
  frames,         \* requestAnimationFrame(scanEntries) callbacks registered and not yet run
  timeouts,       \* setTimeout callbacks of debouncedScan registered and not yet run
  uncaught,       \* an exception escaped the last handler
  released,       \* identity -> its node in a batch that failed, until the next scan or request
  now,            \* Date.now() in the background worker
  cache,          \* the background's cache : identity -> { ts, value }
  bgIn,           \* get_scores messages sent to the background, not yet handled
  native,         \* native-host get_scores requests in flight, with their closures
  answers,        \* sendResponse payloads not yet consumed by the sender
  score,          \* item.score of a found verdict, in hundredths
  shown,          \* the badge renderItem made of it: text and tier
  calls,          \* messages of the three native-backed types, from receipt to the sender's callback
  sums,           \* summarize_article requests, from receipt to the sender's callback
                  \* (in SpecWindow: the Summary actions, each with its request)
  summaryStates,  \* summaryStates.get(windowId) of one window: { title, content, status }
  panel,          \* the side panel of that window: its document, render queue and display
  tip,            \* tooltipEl, the tooltip elements in the document and the close handlers
  click,          \* the click event on a badge and the size the tooltip text takes (SpecPos)
  article,        \* the parts of one content item and where its annotation containers are (SpecPlace)
  probe,          \* the attributes and the permalink of one element (SpecId)
  resolved        \* what getEntryId made of them

pageVars ==
  <<nodes, pending, itemCache, reqs, scheduled, debounceTimer, frames, timeouts,
    uncaught, released>>

bgVars == <<now, cache, bgIn, native, answers>>

badgeVars == <<score, shown>>

callVars == <<calls>>

sumVars == <<sums>>

tipVars == <<tip, click>>

placeVars == <<article>>

idVars == <<probe, resolved>>

sideVars == <<summaryStates, panel>>

vars ==
  <<pageVars, bgVars, badgeVars, callVars, sumVars, tipVars, placeVars, idVars, sideVars>>

\* What a handler of the page / of the background leaves alone.
offPage == <<bgVars, badgeVars, callVars, sumVars, tipVars, placeVars, idVars, sideVars>>

offBg == <<pageVars, badgeVars, callVars, sumVars, tipVars, placeVars, idVars, sideVars>>

\* What renderItem's badge code / a native-backed handler leaves alone.
offBadge == <<pageVars, bgVars, callVars, sumVars, tipVars, placeVars, idVars, sideVars>>

offCalls ==
  <<pageVars, badgeVars, now, bgIn, native, answers, sumVars, tipVars, placeVars, idVars, sideVars>>

offSums == <<pageVars, bgVars, badgeVars, callVars, tipVars, placeVars, idVars, sideVars>>

offTip == <<pageVars, bgVars, badgeVars, callVars, sumVars, placeVars, idVars, sideVars>>

offPlace == <<pageVars, bgVars, badgeVars, callVars, sumVars, tipVars, idVars, sideVars>>

offId == <<pageVars, bgVars, badgeVars, callVars, sumVars, tipVars, placeVars, sideVars>>

\* ---------------------------------------------------------------- helpers
Range(f) == {f[x] : x \in DOMAIN f}

SeqSet(s) == {s[i] : i \in 1..Len(s)}

Occurrences(s, x) == Cardinality({i \in 1..Len(s) : s[i] = x})

RemoveAt(s, i) == SubSeq(s, 1, i - 1) \o SubSeq(s, i + 1, Len(s))

\* A content item freshly created by the host: no engine UI in it.
NewNode(id, view) ==
  [life |-> "live", id |-> id, view |-> view,
   cont |-> FALSE,                 \* .ai-score-container exists
   analyze |-> 0, badge |-> 0, sbtn |-> 0, reason |-> 0,   \* children of the container
   header |-> 0, loading |-> 0, related |-> 0,            \* engine blocks in the content body
   searches |-> 0,                 \* semantic_search requests of this node in flight
   astate |-> "none",              \* the Analyze control: none, idle, busy, error, failed
   sstate |-> "none",              \* the Summary control: none, idle, busy
   aflight |-> 0, sflight |-> 0,   \* on-demand requests in flight, sent from the controls in the container
   adet |-> 0, sdet |-> 0,         \* on-demand requests in flight whose control left the container
   src |-> "text",                 \* what the click handlers can extract from the item
   localfail |-> FALSE]            \* the side panel was sent the local Summarize error of this item

Annotated(nd) == nd.badge > 0 \/ nd.analyze > 0

\* Elements the engine created in or for a node.
EngineElements(nd) ==
  (IF nd.cont THEN 1 ELSE 0) + nd.analyze + nd.badge + nd.sbtn + nd.reason
    + nd.header + nd.loading + nd.related

\* getEntryId: the identity of a node, NoId when no probe applies; BadId
\* stands for the probe that raises in decodeURIComponent.
getEntryId(nd) == nd.id

\* ensureBadgeContainer without container.innerHTML = ''.
KeepContainer(nd) == [nd EXCEPT !.cont = TRUE]

\* The controls of a container leave it: the requests they sent stay in
\* flight, their callbacks holding the detached controls.
Detach(nd) ==
  [nd EXCEPT !.astate = "none", !.sstate = "none",
             !.adet = @ + nd.aflight, !.aflight = 0,
             !.sdet = @ + nd.sflight, !.sflight = 0]

\* ensureBadgeContainer followed by container.innerHTML = ''.
ClearContainer(nd) ==
  [Detach(nd) EXCEPT !.cont = TRUE, !.analyze = 0, !.badge = 0, !.sbtn = 0,
                     !.reason = 0]

\* The Analyze control created disabled.
AnalyzeControlDisabled(c) == [c EXCEPT !.analyze = @ + 1, !.astate = "busy"]

\* The Analyze control as renderItem creates it: enabled, spinner hidden.
AnalyzeControl(c) == [c EXCEPT !.analyze = @ + 1, !.astate = "idle"]

\* renderItem(el, item): item is a verdict or Absent.
renderItem(nd, item) ==
  LET c == ClearContainer(nd)
      open == HasInfo(nd.view) \/ IsExpanded(nd.view)
  IN
  IF item = Absent \/ ~Found(item)
    THEN AnalyzeControl(c)
    ELSE
      LET withBadge == [c EXCEPT !.badge = @ + 1]
          withReason ==
            IF open /\ HasReason(item) /\ withBadge.reason = 0
              THEN [withBadge EXCEPT !.reason = @ + 1] ELSE withBadge
          withHeader ==
            IF open /\ HasBody(nd.view) /\ HasSummary(item) /\ withReason.header = 0
              THEN [withReason EXCEPT !.header = @ + 1] ELSE withReason
          withButton ==
            IF withHeader.sbtn = 0
              THEN [withHeader EXCEPT !.sbtn = @ + 1, !.sstate = "idle"]
              ELSE withHeader
          \* .ai-related-articles-results only ever lives inside a section
          hasRelatedArticles == withButton.related > 0
          withRelated ==
            IF open /\ HasBody(nd.view) /\ withButton.related = 0 /\ ~hasRelatedArticles
              THEN [withButton EXCEPT
                      !.loading = @ + 1,
                      !.searches = IF getEntryId(nd) \in Ids THEN @ + 1 ELSE @]
              ELSE withButton
      IN withRelated

\* ------------------------------------------------- one pass of the engine
\* The working state of a handler: the part of the program state it reads
\* and writes, the batch it is building, whether it has thrown, and whether
\* it wrote into the live document (which the observer reports).
Pass(ns, pd, ic) ==
  [nodes |-> ns, pending |-> pd, itemCache |-> ic,
   items |-> << >>, map |-> [i \in Ids |-> NoNode],
   thrown |-> FALSE, wrote |-> FALSE]

RenderInto(S, n, item) ==
  [S EXCEPT !.nodes[n] = renderItem(@, item),
            !.wrote = @ \/ S.nodes[n].life = "live"]

\* ScanEntry without the STATE.pending.has(id) test.
ScanEntryIgnoringPending(S, n) ==
  LET nd == S.nodes[n]
      id == getEntryId(nd)
  IN
  IF S.thrown THEN S
  ELSE IF id = BadId THEN [S EXCEPT !.thrown = TRUE]
  ELSE IF id = NoId THEN S
  ELSE IF Annotated(nd) THEN S
  ELSE [S EXCEPT !.items = Append(@, id),
                 !.map[id] = n,
                 !.pending[id] = n]

\* ScanEntry without the test for a badge or an Analyze control.
ScanEntryIgnoringAnnotation(S, n) ==
  LET nd == S.nodes[n]
      id == getEntryId(nd)
  IN
  IF S.thrown THEN S
  ELSE IF id = BadId THEN [S EXCEPT !.thrown = TRUE]
  ELSE IF id = NoId THEN S
  ELSE IF S.pending[id] # NoNode THEN S
  ELSE [S EXCEPT !.items = Append(@, id),
                 !.map[id] = n,
                 !.pending[id] = n]

\* The body of the for loop of scanEntries, for one entry.
ScanEntry(S, n) ==
  LET nd == S.nodes[n]
      id == getEntryId(nd)
  IN
  IF S.thrown THEN S
  ELSE IF id = BadId THEN [S EXCEPT !.thrown = TRUE]
  ELSE IF id = NoId THEN S
  ELSE IF S.pending[id] # NoNode THEN S
  ELSE IF Annotated(nd) THEN
    LET item == S.itemCache[id] IN
    IF item # Absent /\ Found(item) /\ HasReason(item)
         /\ HasInfo(nd.view) /\ nd.reason = 0
      THEN RenderInto(S, n, item)
      ELSE S
  ELSE [S EXCEPT !.items = Append(@, id),
                 !.map[id] = n,
                 !.pending[id] = n]

\* fastProcessEntry without the STATE.pending.has(id) test.
fastProcessEntryIgnoringPending(S, n) ==
  LET nd == S.nodes[n]
      id == getEntryId(nd)
  IN
  IF S.thrown THEN S
  ELSE IF Annotated(nd) THEN S
  ELSE IF id = BadId THEN [S EXCEPT !.thrown = TRUE]
  ELSE IF id = NoId THEN S
  ELSE IF S.itemCache[id] # Absent THEN RenderInto(S, n, S.itemCache[id])
  ELSE [S EXCEPT !.pending[id] = n,
                 !.map[id] = n,
                 !.items = Append(@, id)]

\* fastProcessEntry(entry, mapToFetch, itemsToFetch).
fastProcessEntry(S, n) ==
  LET nd == S.nodes[n]
      id == getEntryId(nd)
  IN
  IF S.thrown THEN S
  ELSE IF Annotated(nd) THEN S
  ELSE IF id = BadId THEN [S EXCEPT !.thrown = TRUE]
  ELSE IF id = NoId THEN S
  ELSE IF S.itemCache[id] # Absent THEN RenderInto(S, n, S.itemCache[id])
  ELSE IF S.pending[id] # NoNode THEN S
  ELSE [S EXCEPT !.pending[id] = n,
                 !.map[id] = n,
                 !.items = Append(@, id)]

RECURSIVE ScanLoop(_, _)
ScanLoop(S, k) ==
  IF k > Len(S.nodes) THEN S
  ELSE ScanLoop(IF S.nodes[k].life = "live" THEN ScanEntry(S, k) ELSE S, k + 1)

RECURSIVE FastLoop(_, _)
FastLoop(S, batch) ==
  IF batch = << >> THEN S
  ELSE FastLoop(fastProcessEntry(S, Head(batch)), Tail(batch))

\* A get_scores request in flight: the batch and the closure's map.
Request(S) == [items |-> S.items, map |-> S.map]

\* The requests after a pass: one more when the pass completed with a
\* non-empty batch.
Sent(S, rs) == IF ~S.thrown /\ S.items # << >> THEN Append(rs, Request(S)) ELSE rs

\* The released identities after a pass of the fast path: those it
\* requested again leave.
Retried(S, rel) ==
  IF ~S.thrown /\ S.items # << >>
    THEN [i \in Ids |-> IF i \in SeqSet(S.items) THEN NoNode ELSE rel[i]]
    ELSE rel

\* The released identities after the channel failed for a request.
Failed(req, rel) ==
  [i \in Ids |-> IF i \in SeqSet(req.items) THEN req.map[i] ELSE rel[i]]

\* ------------------------------------------------------------ the scheduler
\* debouncedScan() without its guard: every call registers a timeout.
TimeoutsUnguarded(called) == IF called THEN timeouts + 1 ELSE timeouts

\* debouncedScan(), when 'called': a timeout is registered unless
\* debounceTimer is set.
Timeouts(called) == IF called /\ ~debounceTimer THEN timeouts + 1 ELSE timeouts

Armed(called) == debounceTimer \/ called

\* The observer callback without its fallback: debouncedScan() is called
\* for the engine's own writes only.
NoFallback(fetched, wrote) == wrote

\* The observer callback calls debouncedScan() when fastProcessMutations
\* sent no request (returned false or threw); the writes of the fast path
\* come back in a callback of their own, which sends none.
FallsBack(fetched, wrote) == ~fetched \/ wrote

\* scheduleScan() without its guard: every call registers a frame callback.
FramesUnguarded == frames + 1

\* scheduleScan(): a frame callback is registered unless STATE.scheduled.
Frames == IF scheduled THEN frames ELSE frames + 1

\* ---------------------------------------------------------------- the badge
\* A score is a number of hundredths, or missing.  A decimal d.x5 other than
\* d.25 and d.75 is not a value a double holds, so it is no score.
NoScore == -1

Scores ==
  {h \in 0..MaxScore : h % 10 = 5 => h % 100 \in {25, 75}} \cup {NoScore}

NoBadge == [text |-> << >>, tier |-> "none"]

\* Number.prototype.toFixed(1) cutting the second decimal off.
toFixed1Truncating(h) == <<h \div 100, (h \div 10) % 10>>

\* Number.prototype.toFixed(1): the nearest number of tenths, the larger
\* one of two, as integer part and decimal digit.
toFixed1(h) == <<(h + 5) \div 100, ((h + 5) \div 10) % 10>>

\* badge.style.background by score: #10b981, #3b82f6, #ef4444.
Tier(h) == IF h >= 400 THEN "high" ELSE IF h >= 300 THEN "middle" ELSE "low"

\* The badge of a found verdict; score?.toFixed(1) of a missing score is
\* undefined and every comparison with it is false.
Badge(h) ==
  IF h = NoScore THEN [text |-> << >>, tier |-> "low"]
  ELSE [text |-> toFixed1(h), tier |-> Tier(h)]

InitBadge == score = NoScore /\ shown = NoBadge

InitCalls == calls = << >>

InitSums == sums = << >>

\* No badge has been clicked: tooltipEl is null.
NoTooltip ==
  [el |-> FALSE, count |-> 0, text |-> "", display |-> "", left |-> 0, top |-> 0,
   w |-> 0, h |-> 0, timers |-> 0, handlers |-> 0]

NoClick == [x |-> 0, y |-> 0, w |-> 0, h |-> 0]

InitTip == tip = NoTooltip /\ click = NoClick

\* The parts ensureBadgeContainer looks for in a content item.
Parts == {"metadata", "titleLink", "entryInfo", "titleContainer"}

\* A bare content item without container.
BareEntry ==
  [titleOnly |-> FALSE, parts |-> {}, at |-> "none", containers |-> 0]

InitPlace == article = BareEntry

\* An element without attributes, descendants or links; getEntryId not
\* yet called.
Missing == [present |-> FALSE, value |-> << >>]

NoProbe ==
  [own |-> << >>, child |-> Missing, link |-> Missing, dataId |-> << >>, elemId |-> << >>]

\* getEntryId has not returned.
Unset == [outcome |-> "unset", value |-> << >>]

InitId == probe = NoProbe /\ resolved = Unset

\* An update_sidepanel message, or a summaryStates entry; NoState when
\* there is none.  A title is the number of the article, 0 for no title.
State(title, content, status) == [title |-> title, content |-> content, status |-> status]

NoState == State(0, "", "none")

\* The side panel is closed: no document, nothing queued, nothing shown.
NoPanel ==
  [open |-> FALSE, renderTimer |-> FALSE, pendingRender |-> NoState,
   lastRenderedKey |-> << >>, shown |-> NoState, received |-> NoState]

InitSide == summaryStates = NoState /\ panel = NoPanel

\* ------------------------------------------------------------------- Init
\* The content script has just run: nothing pending, nothing cached, the
\* initial scheduleScan() has set STATE.scheduled.
InitPage ==
  /\ nodes = << >>
  /\ pending = [i \in Ids |-> NoNode]
  /\ itemCache = [i \in Ids |-> Absent]
  /\ reqs = << >>
  /\ scheduled = TRUE
  /\ frames = 1
  /\ debounceTimer = FALSE
  /\ timeouts = 0
  /\ uncaught = FALSE
  /\ released = [i \in Ids |-> NoNode]

\* The background worker has just started: empty cache, nothing in flight.
NoEntry == [has |-> FALSE, ts |-> 0, value |-> Absent]

NoItems == [i \in Ids |-> Absent]

InitBg ==
  /\ now = 0
  /\ cache = [i \in Ids |-> NoEntry]
  /\ bgIn = << >>
  /\ native = << >>
  /\ answers = << >>

\* ---------------------------------------------------------------- actions
\* requestAnimationFrame callback: scanEntries.  The pass's own writes into
\* the document reach the observer, whose fast path finds the written
\* entries already annotated and falls back to debouncedScan().
scanEntries ==
  /\ frames > 0
  /\ frames' = frames - 1
  /\ \E S \in {ScanLoop(Pass(nodes, pending, itemCache), 1)} :
       /\ nodes' = S.nodes
       /\ pending' = S.pending
       /\ itemCache' = S.itemCache
       /\ reqs' = Sent(S, reqs)
       /\ released' = [i \in Ids |-> NoNode]
       /\ debounceTimer' = Armed(S.wrote)
       /\ timeouts' = Timeouts(S.wrote)
       /\ uncaught' = S.thrown
  /\ scheduled' = FALSE
  /\ UNCHANGED offPage

\* The setTimeout callback of debouncedScan: scheduleScan().
debounceFire ==
  /\ timeouts > 0
  /\ timeouts' = timeouts - 1
  /\ debounceTimer' = FALSE
  /\ scheduled' = TRUE
  /\ frames' = Frames
  /\ uncaught' = FALSE
  /\ UNCHANGED <<nodes, pending, itemCache, reqs, released>>
  /\ UNCHANGED offPage

\* The MutationObserver callback for a change batch that reaches the
\* entries of 'batch' (in order), on the document 'ns': fastProcessMutations
\* inside try/catch, debouncedScan() when it returns false or throws.  Writes
\* of the fast path are reported in a second callback, which finds the
\* entries annotated and calls debouncedScan().
observe(ns, batch) ==
  LET S == FastLoop(Pass(ns, pending, itemCache), batch)
      fetched == ~S.thrown /\ S.items # << >>
  IN
  /\ nodes' = S.nodes
  /\ pending' = S.pending
  /\ itemCache' = S.itemCache
  /\ reqs' = Sent(S, reqs)
  /\ released' = Retried(S, released)
  /\ debounceTimer' = Armed(FallsBack(fetched, S.wrote))
  /\ timeouts' = Timeouts(FallsBack(fetched, S.wrote))
  /\ uncaught' = FALSE
  /\ UNCHANGED <<scheduled, frames>>
  /\ UNCHANGED offPage

\* The entries a change batch reaches when the host inserts the entries
\* first..last: each is found by closest() and again by matches().
RECURSIVE Reached(_, _)
Reached(first, last) ==
  IF first > last THEN << >> ELSE <<first, first>> \o Reached(first + 1, last)

\* The host inserts new content items at the end of the document.
hostAdd(maxN, kinds, views) ==
  \E k \in 1..MaxBatch :
    /\ Len(nodes) + k <= maxN
    /\ \E new \in [1..k -> kinds \X views] :
         LET ns == nodes \o [j \in 1..k |-> NewNode(new[j][1], new[j][2])]
         IN observe(ns, Reached(Len(nodes) + 1, Len(nodes) + k))

\* The host inserts children into a live item, possibly opening it.
hostTouch(views) ==
  \E n \in 1..Len(nodes), v \in views :
    /\ nodes[n].life = "live"
    /\ ViewRank(v) >= ViewRank(nodes[n].view)
    /\ observe([nodes EXCEPT ![n].view = v], <<n>>)

\* Removal-only change batches: fastProcessMutations returns false.
removalOnly(ns) ==
  /\ nodes' = ns
  /\ debounceTimer' = Armed(FallsBack(FALSE, FALSE))
  /\ timeouts' = Timeouts(FallsBack(FALSE, FALSE))
  /\ uncaught' = FALSE
  /\ UNCHANGED <<pending, itemCache, reqs, scheduled, frames, released>>
  /\ UNCHANGED offPage

\* The host removes a content item from the document.
hostRemove ==
  \E n \in 1..Len(nodes) :
    /\ nodes[n].life = "live"
    /\ removalOnly([nodes EXCEPT ![n].life = "gone"])

\* The host re-renders the part of an item that holds the engine's
\* container, which disappears with its children.
hostStrip ==
  \E n \in 1..Len(nodes) :
    /\ nodes[n].life = "live"
    /\ nodes[n].cont
    /\ nodes[n].loading < MaxLoading
    /\ removalOnly([nodes EXCEPT ![n] = [Detach(@) EXCEPT !.cont = FALSE, !.analyze = 0,
                                                         !.badge = 0, !.sbtn = 0,
                                                         !.reason = 0]])

\* The callback of a get_scores request, response branch.
RECURSIVE ResponseLoop(_, _, _, _)
ResponseLoop(S, req, items, k) ==
  IF k > Len(req.items) THEN S
  ELSE
    LET id == req.items[k]
        entry == IF req.map[id] # NoNode THEN req.map[id] ELSE S.pending[id]
        S1 == IF items[id] # Absent THEN [S EXCEPT !.itemCache[id] = items[id]] ELSE S
        S2 == IF entry # NoNode THEN RenderInto(S1, entry, items[id]) ELSE S1
    IN ResponseLoop([S2 EXCEPT !.pending[id] = NoNode], req, items, k + 1)

\* The callback of a get_scores request, lastError branch.
RECURSIVE ReleaseLoop(_, _, _)
ReleaseLoop(S, req, k) ==
  IF k > Len(req.items) THEN S
  ELSE ReleaseLoop([S EXCEPT !.pending[req.items[k]] = NoNode], req, k + 1)

finish(S, i, rel) ==
  /\ nodes' = S.nodes
  /\ released' = rel
  /\ pending' = S.pending
  /\ itemCache' = S.itemCache
  /\ reqs' = RemoveAt(reqs, i)
  /\ debounceTimer' = Armed(S.wrote)
  /\ timeouts' = Timeouts(S.wrote)
  /\ uncaught' = S.thrown
  /\ UNCHANGED <<scheduled, frames>>
  /\ UNCHANGED offPage

\* The channel answers request i with a response map of verdicts.
responseTo(i, verdicts) ==
  \E items \in [Ids -> verdicts \cup {Absent}] :
    /\ \A id \in Ids : id \notin SeqSet(reqs[i].items) => items[id] = Absent
    /\ finish(ResponseLoop(Pass(nodes, pending, itemCache), reqs[i], items, 1), i, released)

response(verdicts) == \E i \in 1..Len(reqs) : responseTo(i, verdicts)

\* The channel fails for request i (chrome.runtime.lastError).
channelFailOf(i) ==
  finish(ReleaseLoop(Pass(nodes, pending, itemCache), reqs[i], 1), i,
         Failed(reqs[i], released))

channelFail == \E i \in 1..Len(reqs) : channelFailOf(i)


\* The callback of a semantic_search request of node n.
semanticResponse ==
  \E n \in 1..Len(nodes), results \in BOOLEAN :
    /\ nodes[n].searches > 0
    /\ LET nd == nodes[n]
           unloaded == [nd EXCEPT !.searches = @ - 1,
                                  !.loading = IF @ > 0 THEN @ - 1 ELSE @]
       IN
       IF results
         THEN LET ns == [nodes EXCEPT ![n] = [unloaded EXCEPT !.related = @ + 1]] IN
              IF nd.life = "live"
                THEN observe(ns, <<n>>)
                ELSE /\ nodes' = ns
                     /\ uncaught' = FALSE
                     /\ UNCHANGED <<pending, itemCache, reqs, scheduled, frames,
                                    debounceTimer, timeouts, released>>
                     /\ UNCHANGED offPage
         ELSE /\ nodes' = [nodes EXCEPT ![n] = unloaded]
              /\ debounceTimer' = Armed(nd.life = "live" /\ nd.loading > 0)
              /\ timeouts' = Timeouts(nd.life = "live" /\ nd.loading > 0)
              /\ uncaught' = FALSE
              /\ UNCHANGED <<pending, itemCache, reqs, scheduled, frames, released>>
              /\ UNCHANGED offPage

\* ------------------------------------------------- the on-demand actions
\* What a click handler extracts from an item: text of at least the
\* minimum length, a short text with a title link, or neither.
Extracts == {"text", "urlonly", "nothing"}

\* What an analyze_article request resolves to: chrome.runtime.lastError, a
\* response without found and score, or a scored verdict.
Outcomes == {"lastError", "error"} \cup {v \in Verdicts : Found(v)}

OnDemand(nd) == nd.aflight + nd.adet + nd.sflight + nd.sdet

\* The Analyze handler up to sendMessage, without btn.disabled = true.
ActivateWithoutDisabling(nd) == [nd EXCEPT !.aflight = @ + 1]

\* The Analyze handler up to sendMessage: the control is disabled, its
\* spinner shown, and one analyze_article request is sent.
Activate(nd) == [nd EXCEPT !.astate = "busy", !.aflight = @ + 1]

\* The user clicks the Analyze control of an item.  A disabled control
\* receives no click.
clickAnalyze ==
  \E n \in 1..Len(nodes) :
    /\ nodes[n].life = "live"
    /\ nodes[n].analyze > 0
    /\ nodes[n].astate \notin {"none", "busy"}
    /\ getEntryId(nodes[n]) \in Ids
    /\ OnDemand(nodes[n]) < MaxClicks
    /\ nodes' = [nodes EXCEPT ![n] = Activate(@)]
    /\ uncaught' = FALSE
    /\ UNCHANGED <<pending, itemCache, reqs, scheduled, frames, debounceTimer,
                   timeouts, released>>
    /\ UNCHANGED offPage

\* The Summary handler: the local failure when the text is short and no
\* URL is known, one summarize_article request otherwise.
Summarize(nd) ==
  IF nd.src = "nothing"
    THEN [nd EXCEPT !.localfail = TRUE]
    ELSE [nd EXCEPT !.sstate = "busy", !.sflight = @ + 1]

\* The user clicks the Summary control of an item.
clickSummary ==
  \E n \in 1..Len(nodes) :
    /\ nodes[n].life = "live"
    /\ nodes[n].sbtn > 0
    /\ nodes[n].sstate = "idle"
    /\ getEntryId(nodes[n]) \in Ids
    /\ OnDemand(nodes[n]) < MaxClicks
    /\ nodes' = [nodes EXCEPT ![n] = Summarize(@)]
    /\ uncaught' = FALSE
    /\ UNCHANGED <<pending, itemCache, reqs, scheduled, frames, debounceTimer,
                   timeouts, released>>
    /\ UNCHANGED offPage

\* The failure branches of the analyze_article callback leaving the
\* control as it is.
SettleLeavingDisabled(nd, out) == nd

\* The failure branches of the analyze_article callback: the control is
\* enabled, its spinner hidden, its label 'Error' or 'Failed'.
Settle(nd, out) ==
  [nd EXCEPT !.astate = IF out = "lastError" THEN "error" ELSE "failed"]

\* The callback of an analyze_article request of item n, sent from the
\* control in the container (cur) or from one that left it.
analyzeDone(outs) ==
  \E n \in 1..Len(nodes), cur \in BOOLEAN, out \in outs :
    /\ IF cur THEN nodes[n].aflight > 0 ELSE nodes[n].adet > 0
    /\ LET id == getEntryId(nodes[n])
           nd == IF cur THEN [nodes[n] EXCEPT !.aflight = @ - 1]
                        ELSE [nodes[n] EXCEPT !.adet = @ - 1]
           scored == out \notin {"lastError", "error"}
           wrote == scored /\ nd.life = "live"
       IN
       /\ nodes' = [nodes EXCEPT ![n] = IF scored THEN renderItem(nd, out)
                                        ELSE IF cur THEN Settle(nd, out) ELSE nd]
       /\ itemCache' = IF scored THEN [itemCache EXCEPT ![id] = out] ELSE itemCache
       /\ debounceTimer' = Armed(wrote)
       /\ timeouts' = Timeouts(wrote)
    /\ uncaught' = FALSE
    /\ UNCHANGED <<pending, reqs, scheduled, frames, released>>
    /\ UNCHANGED offPage

\* The callback of a summarize_article request of item n: whatever the
\* response, the control is enabled and its spinner hidden.
summaryDone ==
  \E n \in 1..Len(nodes), cur \in BOOLEAN :
    /\ IF cur THEN nodes[n].sflight > 0 ELSE nodes[n].sdet > 0
    /\ nodes' = [nodes EXCEPT ![n] =
                   IF cur THEN [@ EXCEPT !.sflight = @ - 1, !.sstate = "idle"]
                          ELSE [@ EXCEPT !.sdet = @ - 1]]
    /\ uncaught' = FALSE
    /\ UNCHANGED <<pending, itemCache, reqs, scheduled, frames, debounceTimer,
                   timeouts, released>>
    /\ UNCHANGED offPage

\* A list page: any identities, every item in the compact list view, where
\* a verdict shows as the Analyze control or as a badge.
ListViews == {"compact"}

ListVerdicts == {"notfound", "rich"}

responseList == response(ListVerdicts)

\* The channel calls back for the request that names an identity.
callback(id) ==
  \E i \in 1..Len(reqs) :
    /\ id \in SeqSet(reqs[i].items)
    /\ (responseTo(i, ListVerdicts) \/ channelFailOf(i))

hostAddList == hostAdd(MaxNodes, IdKinds, ListViews)

hostTouchList == hostTouch(ListViews)

Init ==
  /\ InitPage /\ InitBg /\ InitBadge /\ InitCalls /\ InitSums /\ InitTip /\ InitPlace /\ InitId
  /\ InitSide

Next ==
  \/ scanEntries
  \/ debounceFire
  \/ hostAddList
  \/ hostTouchList
  \/ hostRemove
  \/ hostStrip
  \/ responseList
  \/ channelFail

Spec == Init /\ [][Next]_vars

\* The renderings of one identity: items the host opens, re-renders and
\* strips in every view mode, answered with every kind of verdict.
ItemKinds == {"a1"}

hostAddItem == hostAdd(MaxOpen, ItemKinds, Views)

hostTouchItem == hostTouch(Views)

responseItem == response(Verdicts)

NextItem ==
  \/ scanEntries
  \/ debounceFire
  \/ hostAddItem
  \/ hostTouchItem
  \/ hostStrip
  \/ responseItem
  \/ channelFail
  \/ semanticResponse

SpecItem == Init /\ [][NextItem]_vars

\* The annotation container alone: one identity rendered, re-rendered and
\* stripped in every view mode, without the semantic-search callbacks.
NextCont ==
  \/ scanEntries
  \/ debounceFire
  \/ hostAddItem
  \/ hostTouchItem
  \/ hostStrip
  \/ responseItem

SpecCont == Init /\ [][NextCont]_vars

\* The list page when timers fire and the channel calls back for every
\* request sent.
SpecLive ==
  /\ Init /\ [][Next]_vars
  /\ WF_vars(scanEntries)
  /\ WF_vars(debounceFire)
  /\ \A id \in Ids : WF_vars(callback(id))

\* The scan scheduler: a page of few items, in the list view or opened,
\* when timers fire and frame callbacks run.
SchedViews == {"compact", "detail"}

\* One resolvable identity and the item without one.
SchedIds == {"a1", NoId}

hostAddSched == hostAdd(MaxOpen, SchedIds, SchedViews)

hostTouchSched == hostTouch(SchedViews)

NextSched ==
  \/ scanEntries
  \/ debounceFire
  \/ hostAddSched
  \/ hostTouchSched
  \/ hostRemove
  \/ hostStrip
  \/ responseList
  \/ channelFail

SpecSched ==
  /\ Init /\ [][NextSched]_vars
  /\ WF_vars(scanEntries)
  /\ WF_vars(debounceFire)

\* The on-demand actions on a list page: the user clicks the controls of
\* the items, whatever text and link they hold.
hostAddArticle ==
  \E id \in ItemKinds, v \in ListViews, x \in Extracts :
    /\ Len(nodes) < MaxOpen
    /\ observe(Append(nodes, [NewNode(id, v) EXCEPT !.src = x]),
               Reached(Len(nodes) + 1, Len(nodes) + 1))

analyzeDoneList == analyzeDone({"lastError", "error", "rich"})

NextClick ==
  \/ scanEntries
  \/ debounceFire
  \/ hostAddArticle
  \/ hostTouchList
  \/ hostStrip
  \/ responseList
  \/ clickAnalyze
  \/ clickSummary
  \/ analyzeDoneList
  \/ summaryDone

SpecClick == Init /\ [][NextClick]_vars

\* The badge of every score: renderItem is given a found verdict.
InitScores ==
  /\ InitPage /\ InitBg /\ InitCalls /\ InitSums /\ InitTip /\ InitPlace /\ InitId /\ InitSide
  /\ score \in Scores /\ shown = NoBadge

renderBadge ==
  /\ shown = NoBadge
  /\ shown' = Badge(score)
  /\ UNCHANGED <<score, offBadge>>

NextBadge == renderBadge

SpecBadge == InitScores /\ [][NextBadge]_vars

\* ------------------------------------------------- the background worker
CACHE_TTL_MS == 30 * 1000

\* The clock advances in steps that straddle the TTL.
TickSteps == {CACHE_TTL_MS - 1, CACHE_TTL_MS, CACHE_TTL_MS + 1}

\* The test of getCached without the age comparison.
IsFreshAtAnyAge(entry, t) == entry.has

\* The test of getCached on one cache entry.
IsFresh(entry, t) == entry.has /\ t - entry.ts < CACHE_TTL_MS

\* getCached(ids): the fresh entries and the ids to fetch, in order.
RECURSIVE getCached(_, _, _)
getCached(ids, c, t) ==
  IF ids = << >> THEN [items |-> NoItems, missing |-> << >>]
  ELSE
    LET id == Head(ids)
        rest == getCached(Tail(ids), c, t)
    IN IF IsFresh(c[id], t)
         THEN [rest EXCEPT !.items[id] = c[id].value]
         ELSE [rest EXCEPT !.missing = <<id>> \o @]

\* mergeCache(items) at time t.
mergeCache(c, items, t) ==
  [i \in Ids |-> IF items[i] # Absent
                   THEN [has |-> TRUE, ts |-> t, value |-> items[i]]
                   ELSE c[i]]

\* { ...items, ...fetched }
Spread(items, fetched) ==
  [i \in Ids |-> IF fetched[i] # Absent THEN fetched[i] ELSE items[i]]

IdLists == UNION {[1..k -> Ids] : k \in 0..2}

\* The two shapes of a get_scores message: the legacy { ids } and the
\* { items } whose elements carry the id with title, url and excerpt.
Legacy(ids) == [shape |-> "ids", ids |-> ids, items |-> << >>]

Rich(ids) ==
  [shape |-> "items", ids |-> << >>,
   items |-> [k \in 1..Len(ids) |-> [id |-> ids[k], meta |-> TRUE]]]

\* The handler reading msg.ids whatever the message carries.
RequestedIdsLegacyOnly(msg) == msg.ids

\* ids of the get_scores handler: msg.items.map(i => i.id) when msg.items
\* is an array, msg.ids otherwise.
RequestedIds(msg) ==
  IF msg.shape = "items"
    THEN [k \in 1..Len(msg.items) |-> msg.items[k].id]
    ELSE msg.ids

\* missingItems: itemsMap.get(id) || { id: id }
MissingItems(msg, missing) ==
  [k \in 1..Len(missing) |->
     [id |-> missing[k],
      meta |-> \E j \in 1..Len(msg.items) : msg.items[j].id = missing[k]]]

\* What the get_scores handler does with a message: it responds at once
\* (nothing asked, or all from cache) or asks the native host.
GetScores(msg, c, t) ==
  LET ids == RequestedIds(msg)
      got == getCached(ids, c, t)
  IN IF ids = << >>
       THEN [responds |-> TRUE, items |-> NoItems, missing |-> << >>]
       ELSE [responds |-> got.missing = << >>, items |-> got.items,
             missing |-> got.missing]

\* A page sends { type: 'get_scores', ids }.
bgSend ==
  /\ Len(bgIn) + Len(native) + Len(answers) < MaxMsgs
  /\ \E ids \in IdLists : bgIn' = Append(bgIn, Legacy(ids))
  /\ UNCHANGED <<now, cache, native, answers>>
  /\ UNCHANGED offBg

\* A page sends { type: 'get_scores', items }.
bgSendItems ==
  /\ Len(bgIn) + Len(native) + Len(answers) < MaxMsgs
  /\ \E ids \in IdLists : bgIn' = Append(bgIn, Rich(ids))
  /\ UNCHANGED <<now, cache, native, answers>>
  /\ UNCHANGED offBg

\* The get_scores listener handles the oldest message.
bgGetScores ==
  /\ bgIn # << >>
  /\ \E h \in {GetScores(Head(bgIn), cache, now)} :
       /\ bgIn' = Tail(bgIn)
       /\ IF h.responds
            THEN /\ answers' = Append(answers, [items |-> h.items])
                 /\ UNCHANGED native
            ELSE /\ native' = Append(native, [ids |-> h.missing, items |-> h.items,
                                              sent |-> MissingItems(Head(bgIn), h.missing)])
                 /\ UNCHANGED answers
  /\ UNCHANGED <<now, cache>>
  /\ UNCHANGED offBg

\* The native host answers request i: a verdict for some of the requested
\* ids, or nothing at all ({ error } after a native messaging failure).
nativeReply ==
  \E i \in 1..Len(native) :
    \E fetched \in [Ids -> Verdicts \cup {Absent}] :
      /\ \A id \in Ids : id \notin SeqSet(native[i].ids) => fetched[id] = Absent
      /\ cache' = mergeCache(cache, fetched, now)
      /\ answers' = Append(answers, [items |-> Spread(native[i].items, fetched)])
      /\ native' = RemoveAt(native, i)
      /\ UNCHANGED <<now, bgIn>>
      /\ UNCHANGED offBg

\* The sender's callback consumes the oldest response.
bgDeliver ==
  /\ answers # << >>
  /\ answers' = Tail(answers)
  /\ UNCHANGED <<now, cache, bgIn, native>>
  /\ UNCHANGED offBg

tick ==
  \E d \in TickSteps :
    /\ now + d <= MaxTime
    /\ now' = now + d
    /\ UNCHANGED <<cache, bgIn, native, answers>>
    /\ UNCHANGED offBg

NextBg ==
  \/ bgSend
  \/ bgGetScores
  \/ nativeReply
  \/ bgDeliver
  \/ tick

SpecBg == Init /\ [][NextBg]_vars

\* The background worker receiving both shapes of get_scores message,
\* with a clock that stands still.
NextShape ==
  \/ bgSend
  \/ bgSendItems
  \/ bgGetScores
  \/ nativeReply
  \/ bgDeliver

SpecShape == Init /\ [][NextShape]_vars

\* ------------------------------------ the native host behind three handlers
Empty == "empty"           \* {} : the native host answered nothing (response || {})

NativeOutcomes == {"lastError", "undefined", "hostError", "reply"}

\* A promise that is left unsettled when chrome.runtime.lastError is set.
sendNativeMessageHanging(outcome) ==
  CASE outcome = "lastError" -> "unsettled"
    [] outcome = "undefined" -> Empty
    [] OTHER -> outcome

\* sendNativeMessage: what the promise resolves with.
sendNativeMessage(outcome) ==
  CASE outcome = "lastError" -> "channelError"
    [] outcome = "undefined" -> Empty
    [] OTHER -> outcome

HasError(r) == r \in {"channelError", "hostError"}        \* resp.error

CallTypes == {"get_scores", "analyze_article", "semantic_search"}

NoResponse == [body |-> "none", items |-> NoItems]

NewCall(type, ids) ==
  [type |-> type, ids |-> ids, stage |-> "new", items |-> NoItems,
   responses |-> 0, resp |-> NoResponse]

\* sendResponse(resp) of a handler.
Respond(call, resp) ==
  [call EXCEPT !.stage = "done", !.responses = @ + 1, !.resp = resp]

\* A message of one of the three types reaches the background.
callSend ==
  /\ Len(calls) < MaxCalls
  /\ \E type \in CallTypes, ids \in IdLists :
       /\ type = "analyze_article" => Len(ids) = 1
       /\ type = "semantic_search" => ids = << >>
       /\ calls' = Append(calls, NewCall(type, ids))
  /\ UNCHANGED <<cache>>
  /\ UNCHANGED offCalls

\* The listener of the message's type runs: get_scores answers at once
\* from the cache or asks the native host for the missing ids; the other
\* two forward the message to the native host.
callHandle ==
  \E k \in 1..Len(calls) :
    /\ calls[k].stage = "new"
    /\ \E h \in {GetScores(Legacy(calls[k].ids), cache, now)} :
         calls' = [calls EXCEPT ![k] =
                     IF @.type = "get_scores" /\ h.responds
                       THEN Respond(@, [body |-> "items", items |-> h.items])
                     ELSE IF @.type = "get_scores"
                       THEN [@ EXCEPT !.stage = "native", !.ids = h.missing,
                                      !.items = h.items]
                       ELSE [@ EXCEPT !.stage = "native"]]
    /\ UNCHANGED <<cache>>
    /\ UNCHANGED offCalls

\* fetched of the get_scores continuation: resp.items or {}.
Fetched(r, items) == IF r = "reply" THEN items ELSE NoItems

\* The verdict an analyze_article continuation stores and returns.
Analysed(call, r, v) ==
  [i \in Ids |-> IF i \in SeqSet(call.ids)
                   THEN (IF r = "reply" THEN v ELSE Empty)
                   ELSE Absent]

\* The native messaging callback of call k and the .then continuation of
\* its handler.
callNative ==
  \E k \in 1..Len(calls), outcome \in NativeOutcomes,
     fetched \in [Ids -> Verdicts \cup {Absent}], v \in Verdicts :
    /\ calls[k].stage = "native"
    /\ \A id \in Ids : id \notin SeqSet(calls[k].ids) => fetched[id] = Absent
    /\ outcome # "reply" => (v = "rich" /\ fetched = NoItems)
    /\ calls[k].type = "get_scores" => v = "rich"
    /\ calls[k].type # "get_scores" => fetched = NoItems
    /\ calls[k].type = "semantic_search" => v = "rich"
    /\ LET c == calls[k]
           r == sendNativeMessage(outcome)
       IN
       IF r = "unsettled"
         THEN /\ calls' = [calls EXCEPT ![k].stage = "hung"]
              /\ UNCHANGED cache
       ELSE IF c.type = "get_scores"
         THEN /\ cache' = mergeCache(cache, Fetched(r, fetched), now)
              /\ calls' = [calls EXCEPT ![k] =
                   Respond(@, [body |-> "items",
                               items |-> Spread(c.items, Fetched(r, fetched))])]
       ELSE IF c.type = "analyze_article"
         THEN /\ cache' = IF HasError(r) THEN cache
                          ELSE mergeCache(cache, Analysed(c, r, v), now)
              /\ calls' = [calls EXCEPT ![k] =
                   Respond(@, [body |-> r,
                               items |-> IF HasError(r) THEN NoItems
                                         ELSE Analysed(c, r, v)])]
       ELSE /\ UNCHANGED cache
            /\ calls' = [calls EXCEPT ![k] = Respond(@, [body |-> r, items |-> NoItems])]
    /\ UNCHANGED offCalls

\* The sender's callback consumes the response of call k.
callDeliver ==
  \E k \in 1..Len(calls) :
    /\ calls[k].stage = "done"
    /\ calls' = RemoveAt(calls, k)
    /\ UNCHANGED <<cache>>
    /\ UNCHANGED offCalls

NextNative ==
  \/ callSend
  \/ callHandle
  \/ callNative
  \/ callDeliver

SpecNative == Init /\ [][NextNative]_vars


\* ------------------------------------------------ summarize_article handler
\* msg.content by its length: under 50, 50 to 199, 200 or more characters.
Lengths == {"tiny", "short", "long"}
LengthRank(c) == CASE c = "tiny" -> 0 [] c = "short" -> 1 [] c = "long" -> 2

\* What fetchArticleContent returns: null, or text of some length.
Fetches == {"null"} \cup Lengths

\* A line of a streamed chunk: a delta with content, a data line that is
\* not JSON, anything else ([DONE], a delta without content, a non-data line).
LineKinds == {"content", "malformed", "other"}

Chunks == UNION {[1..k -> LineKinds] : k \in 1..MaxLines}

Terminal(status) == status \in {"success", "error"}

NewSum(content, url) ==
  [pc |-> "start", content |-> content, url |-> url, last |-> "none",
   terminals |-> 0, responses |-> 0, reads |-> 0, lines |-> << >>,
   fullText |-> 0, shown |-> 0, warned |-> 0]

\* updateSidePanelState(windowId, { status }) of a request whose sender is
\* a tab; 'shown' is the length of the text it carries.
updateSidePanelState(r, status) ==
  [r EXCEPT !.last = status,
            !.shown = IF status \in {"streaming", "success"} THEN r.fullText ELSE 0,
            !.terminals = IF Terminal(status) THEN @ + 1 ELSE @]

\* The error callback without the return that ends the handler.
onErrorWithoutReturn(r) ==
  [updateSidePanelState(r, "error") EXCEPT !.responses = @ + 1, !.pc = "settings"]

\* onError: the error status and sendResponse({ error }).
onError(r) ==
  [updateSidePanelState(r, "error") EXCEPT !.responses = @ + 1, !.pc = "end"]

\* onComplete: the success status and sendResponse({ id, summary }).
onComplete(r) ==
  [updateSidePanelState(r, "success") EXCEPT !.responses = @ + 1, !.pc = "end"]

\* onChunk: the streaming status.
onChunk(r) == updateSidePanelState(r, "streaming")

\* A page sends { type: 'summarize_article', content, url } while the
\* background holds no other.
sumSend ==
  /\ sums = << >>
  /\ \E content \in Lengths, url \in BOOLEAN :
       sums' = Append(sums, NewSum(content, url))
  /\ UNCHANGED offSums

\* The listener up to its first await: the loading status and the fetch of
\* the page, the local error for content under 50 characters, or straight
\* into callOpenAIStream.
sumStart ==
  \E k \in 1..Len(sums) :
    /\ sums[k].pc = "start"
    /\ sums' = [sums EXCEPT ![k] =
         IF @.content # "long" /\ @.url
           THEN [updateSidePanelState(@, "loading") EXCEPT !.pc = "fetching"]
         ELSE IF @.content = "tiny"
           THEN onError(@)
           ELSE [@ EXCEPT !.pc = "settings"]]
    /\ UNCHANGED offSums

\* fetchArticleContent resolves: the fetched text replaces the content when
\* it is longer.
sumFetched ==
  \E k \in 1..Len(sums), fetched \in Fetches :
    /\ sums[k].pc = "fetching"
    /\ sums' = [sums EXCEPT ![k] =
         [@ EXCEPT !.pc = "settings",
                   !.content = IF fetched # "null" /\ LengthRank(fetched) > LengthRank(@)
                                 THEN fetched ELSE @]]
    /\ UNCHANGED offSums

\* callOpenAIStream after getSettings: no API key or content under 50
\* characters is an error, otherwise the request is posted.
sumSettings ==
  \E k \in 1..Len(sums), apiKey \in BOOLEAN :
    /\ sums[k].pc = "settings"
    /\ sums' = [sums EXCEPT ![k] =
         IF ~apiKey \/ @.content = "tiny" THEN onError(@)
         ELSE [@ EXCEPT !.pc = "posting"]]
    /\ UNCHANGED offSums

\* fetch(endpoint) settles: it throws, answers with an error status or
\* without a body, or the stream is opened.
sumPosted ==
  \E k \in 1..Len(sums), outcome \in {"throws", "notOk", "noBody", "ok"} :
    /\ sums[k].pc = "posting"
    /\ sums' = [sums EXCEPT ![k] =
         IF outcome = "ok" THEN [@ EXCEPT !.pc = "reading"] ELSE onError(@)]
    /\ UNCHANGED offSums

\* reader.read() settles: a chunk, the end of the stream, or a failure.
sumRead ==
  \E k \in 1..Len(sums) :
    /\ sums[k].pc = "reading"
    /\ \/ \E chunk \in Chunks :
            /\ sums[k].reads < MaxReads
            /\ sums' = [sums EXCEPT ![k] =
                 [@ EXCEPT !.pc = "decoding", !.reads = @ + 1, !.lines = chunk]]
       \/ sums' = [sums EXCEPT ![k] = onComplete(@)]
       \/ sums' = [sums EXCEPT ![k] = onError(@)]
    /\ UNCHANGED offSums

\* A parse failure that leaves the loop for the outer catch.
DecodeLineAborting(r, line) ==
  IF line = "content" THEN onChunk([r EXCEPT !.fullText = @ + 1])
  ELSE IF line = "malformed" THEN onError(r)
  ELSE r

\* One line of the chunk: the inner try/catch around JSON.parse, whose
\* catch logs a warning ('warned' counts them).
DecodeLine(r, line) ==
  IF line = "content" THEN onChunk([r EXCEPT !.fullText = @ + 1])
  ELSE IF line = "malformed" THEN [r EXCEPT !.warned = @ + 1]
  ELSE r

\* The for loop over the lines of the chunk, one line per step.
sumDecode ==
  \E k \in 1..Len(sums) :
    /\ sums[k].pc = "decoding"
    /\ sums' = [sums EXCEPT ![k] =
         IF @.lines = << >> THEN [@ EXCEPT !.pc = "reading"]
         ELSE [DecodeLine(@, Head(@.lines)) EXCEPT
                 !.lines = IF @ = << >> THEN @ ELSE Tail(@)]]
    /\ UNCHANGED offSums

\* The sender's callback consumes the response.
sumDeliver ==
  \E k \in 1..Len(sums) :
    /\ sums[k].pc = "end"
    /\ sums' = RemoveAt(sums, k)
    /\ UNCHANGED offSums

NextSum ==
  \/ sumSend
  \/ sumStart
  \/ sumFetched
  \/ sumSettings
  \/ sumPosted
  \/ sumRead
  \/ sumDecode
  \/ sumDeliver

SpecSum == Init /\ [][NextSum]_vars


\* ------------------------------------------------------------ the tooltip
\* tooltipText of two badges.
Texts == {"t1", "t2"}

\* e.clientX, e.clientY of a click inside the viewport.
Pointers == [x : 0..MaxView, y : 0..MaxView]

\* getBoundingClientRect of the shown tooltip.
Sizes == [w : 0..MaxSize, h : 0..MaxSize]

\* ensureTooltipEl without the test of tooltipEl.
ensureTooltipElUnguarded(t) == [t EXCEPT !.el = TRUE, !.count = @ + 1]

\* ensureTooltipEl: the element is created and appended once.
ensureTooltipEl(t) == IF t.el THEN t ELSE [t EXCEPT !.el = TRUE, !.count = @ + 1]

\* updateTooltipPos without the two boundary tests.
updateTooltipPosNoFlip(t, e) ==
  IF ~t.el \/ t.display = "none" THEN t
  ELSE [t EXCEPT !.left = e.x + 10, !.top = e.y + 10]

\* updateTooltipPos: pointer + 10, flipped where it would overflow.
updateTooltipPos(t, e) ==
  IF ~t.el \/ t.display = "none" THEN t
  ELSE LET x == e.x + 10
           y == e.y + 10
       IN [t EXCEPT !.left = IF x + t.w > MaxView THEN x - t.w - 20 ELSE x,
                    !.top = IF y + t.h > MaxView THEN y - t.h - 20 ELSE y]

\* showTooltip; the text laid out has the size 'rect'.
showTooltip(t, e, text, rect) ==
  updateTooltipPos([ensureTooltipEl(t) EXCEPT !.text = text, !.display = "block",
                                              !.w = rect.w, !.h = rect.h], e)

\* hideTooltip; an element that is not displayed has an empty rect.
hideTooltip(t) == [ensureTooltipEl(t) EXCEPT !.display = "none", !.w = 0, !.h = 0]

\* badge.onclick for a click event e on the badge with this text, laid out
\* with the size rect: hides the tooltip when it shows this badge's text,
\* shows the text otherwise and sets the timer that registers closeHandler.
onclick(t, text, e, rect) ==
  LET el == ensureTooltipEl(t) IN
  IF el.display = "block" /\ el.text = text
    THEN hideTooltip(el)
    ELSE [showTooltip(el, e, text, rect) EXCEPT !.timers = @ + 1]

\* Clicks in the corners of the viewport, on texts of the smallest and of
\* the largest size.
Corners == [x : {0, MaxView}, y : {0, MaxView}]

CornerSizes == {[w |-> 1, h |-> 1], [w |-> MaxSize, h |-> MaxSize]}

badgeClick ==
  \E text \in Texts, e \in Corners, rect \in CornerSizes :
    /\ tip.timers + tip.handlers < MaxHandlers
    /\ tip' = onclick(tip, text, e, rect)
    /\ UNCHANGED click
    /\ UNCHANGED offTip

\* The setTimeout(0) callback: document.addEventListener('click', closeHandler).
tipTimer ==
  /\ tip.timers > 0
  /\ tip' = [tip EXCEPT !.timers = @ - 1, !.handlers = @ + 1]
  /\ UNCHANGED click
  /\ UNCHANGED offTip

\* A click that reaches the document: every registered closeHandler hides
\* the tooltip and removes itself.
docClick ==
  /\ tip.handlers > 0
  /\ tip' = [hideTooltip(tip) EXCEPT !.handlers = 0]
  /\ UNCHANGED click
  /\ UNCHANGED offTip

NextTip ==
  \/ badgeClick
  \/ tipTimer
  \/ docClick

SpecTip == Init /\ [][NextTip]_vars

\* The position of the tooltip, for every click in the viewport and every
\* size of the text.
InitPos ==
  /\ InitPage /\ InitBg /\ InitBadge /\ InitCalls /\ InitSums /\ InitPlace /\ InitId
  /\ InitSide
  /\ tip = NoTooltip
  /\ click \in [x : 0..MaxView, y : 0..MaxView, w : 0..MaxSize, h : 0..MaxSize]

\* The badge is clicked while no tooltip is shown.
firstClick ==
  /\ tip.display # "block"
  /\ tip.timers + tip.handlers < MaxHandlers
  /\ tip' = onclick(tip, "t1", [x |-> click.x, y |-> click.y],
                    [w |-> click.w, h |-> click.h])
  /\ UNCHANGED click
  /\ UNCHANGED offTip

NextPos == firstClick \/ docClick \/ tipTimer

SpecPos == InitPos /\ [][NextPos]_vars


\* ------------------------------------------------- the annotation container
\* Where a container can be: first in the metadata row, after the title
\* link, last in the info row, first in the title container, first in the
\* item.
Places == {"inMetadata", "afterTitleLink", "inEntryInfo", "inTitleContainer", "inEntry"}

\* The part a place is in; the item itself for the other two.
Holder(place) ==
  CASE place = "inMetadata" -> "metadata"
    [] place = "inEntryInfo" -> "entryInfo"
    [] place = "inTitleContainer" -> "titleContainer"
    [] OTHER -> "entry"

\* The insertion point with the title container tried before the title link.
InsertionPointInsideTitle(el) ==
  IF el.titleOnly /\ "metadata" \in el.parts THEN "inMetadata"
  ELSE IF "titleContainer" \in el.parts THEN "inTitleContainer"
  ELSE IF el.titleOnly /\ "titleLink" \in el.parts THEN "afterTitleLink"
  ELSE IF "entryInfo" \in el.parts THEN "inEntryInfo"
  ELSE "inEntry"

\* The insertion point of a new container.
InsertionPoint(el) ==
  IF el.titleOnly /\ "metadata" \in el.parts THEN "inMetadata"
  ELSE IF el.titleOnly /\ "titleLink" \in el.parts THEN "afterTitleLink"
  ELSE IF "entryInfo" \in el.parts THEN "inEntryInfo"
  ELSE IF "titleContainer" \in el.parts THEN "inTitleContainer"
  ELSE "inEntry"

\* ensureBadgeContainer without the query for an existing container.
ensureBadgeContainerAlways(el) ==
  [el EXCEPT !.at = InsertionPoint(el), !.containers = @ + 1]

\* ensureBadgeContainer: the container found in the item, or a new one at
\* the insertion point.
ensureBadgeContainer(el) ==
  IF el.containers > 0 THEN el
  ELSE [el EXCEPT !.at = InsertionPoint(el), !.containers = @ + 1]

\* A pass or a callback renders the item: renderItem calls
\* ensureBadgeContainer.
placeEnsure ==
  /\ article' = ensureBadgeContainer(article)
  /\ UNCHANGED offPlace

\* The host re-renders the item: a part appears, or a part goes together
\* with the container in it.
placeMorph ==
  /\ \E p \in Parts :
       article' = IF p \in article.parts
                  THEN IF article.containers > 0 /\ Holder(article.at) = p
                         THEN [article EXCEPT !.parts = @ \ {p}, !.at = "none",
                                            !.containers = 0]
                         ELSE [article EXCEPT !.parts = @ \ {p}]
                  ELSE [article EXCEPT !.parts = @ \cup {p}]
  /\ UNCHANGED offPlace

\* The host switches the item to or from the title-only list view.
placeMode ==
  /\ article' = [article EXCEPT !.titleOnly = ~@]
  /\ UNCHANGED offPlace

\* The host removes the engine's container.
placeStrip ==
  /\ article.containers > 0
  /\ article' = [article EXCEPT !.at = "none", !.containers = 0]
  /\ UNCHANGED offPlace

NextPlace ==
  \/ placeEnsure
  \/ placeMorph
  \/ placeMode
  \/ placeStrip

SpecPlace == Init /\ [][NextPlace]_vars


\* ------------------------------------------------------------- getEntryId
\* Strings are sequences of these pieces: letters, the escape %31 of "1",
\* a percent sign that starts no escape, and the suffix _main.
\* Attribute values: << >> is a missing or empty attribute.
OwnIds == {<< >>, <<"a", "1">>}

\* The first descendant that carries an entry-id attribute, if any.
ChildIds == {Missing} \cup [present : {TRUE}, value : {<< >>, <<"a", "2">>}]

\* The first link whose href contains /entry/, if any, by the segment that
\* follows /entry/ (<< >> : nothing follows, the pattern does not match).
LinkSegments ==
  {Missing} \cup [present : {TRUE}, value : {<< >>, <<"a", "%31">>, <<"a", "%">>}]

DataIds == {<< >>, <<"d">>}

ElemIds == {<< >>, <<"e">>, <<"e", "_main">>, <<"_main">>, <<"_main", "e">>}

\* decodeURIComponent raises URIError on this string.
Malformed(str) == \E k \in 1..Len(str) : str[k] = "%"

\* decodeURIComponent of a well-formed string.
decodeURIComponent(str) ==
  [k \in 1..Len(str) |-> IF str[k] = "%31" THEN "1" ELSE str[k]]

\* elId.replace(/_main$/, '')
StripMain(str) ==
  IF str # << >> /\ str[Len(str)] = "_main" THEN SubSeq(str, 1, Len(str) - 1) ELSE str

\* What getEntryId returns: a string, or null.
Returns(str) == [outcome |-> "id", value |-> str]

ReturnsNull == [outcome |-> NoId, value |-> << >>]

\* getEntryId does not return: decodeURIComponent raised.
Throws == [outcome |-> BadId, value |-> << >>]

\* getEntryId on the element el.
EntryIdOf(el) ==
  IF el.own # << >> THEN Returns(el.own)
  ELSE IF el.child.value # << >> THEN Returns(el.child.value)
  ELSE IF el.link.value # << >>
    THEN IF Malformed(el.link.value) THEN Throws
         ELSE Returns(decodeURIComponent(el.link.value))
  ELSE IF el.dataId # << >> THEN Returns(el.dataId)
  ELSE IF el.elemId # << >> THEN Returns(StripMain(el.elemId))
  ELSE ReturnsNull

\* Every element the probes tell apart.
InitProbes ==
  /\ InitPage /\ InitBg /\ InitBadge /\ InitCalls /\ InitSums /\ InitTip /\ InitPlace
  /\ InitSide
  /\ probe \in [own : OwnIds, child : ChildIds, link : LinkSegments,
                dataId : DataIds, elemId : ElemIds]
  /\ resolved = Unset

\* A pass calls getEntryId on the element.
resolve ==
  /\ resolved = Unset
  /\ resolved' = EntryIdOf(probe)
  /\ UNCHANGED probe
  /\ UNCHANGED offId

NextId == resolve

SpecId == InitProbes /\ [][NextId]_vars


\* ================================================================ claims
\* Identities named by the get_scores requests in flight.
InFlight(rs) == UNION {SeqSet(rs[i].items) : i \in 1..Len(rs)}

\* How many times the requests in flight name an identity.
RECURSIVE TimesRequested(_, _)
TimesRequested(rs, id) ==
  IF rs = << >> THEN 0
  ELSE Occurrences(Head(rs).items, id) + TimesRequested(Tail(rs), id)

LiveNodes == {n \in 1..Len(nodes) : nodes[n].life = "live"}

\* C1: while a get_scores request naming an identity is in flight, no step
\* (scan, mutation callback, response) sends another request naming it.
C1_NoSecondRequestInFlight ==
  [][Len(reqs') > Len(reqs) =>
       SeqSet(reqs'[Len(reqs')].items) \cap InFlight(reqs) = {}]_vars

\* The node of a request in flight was removed and a scan has since run
\* over a live un-annotated item of the same identity, sending nothing.
C1_Witness ==
  \E i \in 1..Len(reqs), n \in LiveNodes :
    /\ nodes[n].id \in SeqSet(reqs[i].items)
    /\ nodes[reqs[i].map[nodes[n].id]].life = "gone"
    /\ ~Annotated(nodes[n])
    /\ ~scheduled /\ ~debounceTimer

\* C2: a batch names an identity at most once, and an identity is named by
\* at most one request in flight, however many items resolve to it.
C2_OncePerBatch ==
  \A id \in Ids :
    /\ \A i \in 1..Len(reqs) : Occurrences(reqs[i].items, id) <= 1
    /\ TimesRequested(reqs, id) <= 1

\* One change batch introduced two items of the same identity (each reached
\* twice), and one request naming that identity once is in flight.
C2_Witness ==
  \E id \in Ids :
    /\ Cardinality({n \in LiveNodes : nodes[n].id = id /\ ~Annotated(nodes[n])}) >= 2
    /\ TimesRequested(reqs, id) = 1

\* The step resolves request i: as a response, or as a channel failure.
Resolves(i) == i \in 1..Len(reqs) /\ reqs' = RemoveAt(reqs, i)

IsResponse(i) == Resolves(i) /\ released' = released

IsFailure(i) == Resolves(i) /\ released' # released

IsScan == scheduled /\ ~scheduled'

\* C3: a channel failure removes the batch's identities from the pending
\* set, writes no cache entry and renders nothing; and the next scan that
\* still sees the (un-annotated) node of a released identity names that
\* identity in a new request.
C3_FailureReleasesAndScanRetries ==
  [][/\ \A i \in 1..Len(reqs) :
          IsFailure(i) =>
            /\ \A id \in SeqSet(reqs[i].items) : pending'[id] = NoNode
            /\ itemCache' = itemCache
            /\ nodes' = nodes
     /\ IsScan =>
          \A id \in Ids :
            (released[id] \in LiveNodes /\ ~Annotated(nodes[released[id]])) =>
              /\ Len(reqs') > Len(reqs)
              /\ id \in SeqSet(reqs'[Len(reqs')].items)]_vars

\* C4: a response for an identity whose node has been removed raises
\* nothing, renders nothing into that node and leaves the identity out of
\* the pending set.
C4_RemovedNodeNoOp ==
  [][\A i \in 1..Len(reqs) :
       IsResponse(i) =>
         \A id \in SeqSet(reqs[i].items) :
           nodes[reqs[i].map[id]].life = "gone" =>
             /\ ~uncaught'
             /\ nodes'[reqs[i].map[id]] = nodes[reqs[i].map[id]]
             /\ pending'[id] = NoNode]_vars

\* C5: when a response arrives for an identity whose captured node was
\* replaced, the live node of that identity receives the UI.
C5_RendersIntoCurrentNode ==
  [][\A i \in 1..Len(reqs) :
       IsResponse(i) =>
         \A id \in SeqSet(reqs[i].items) :
           nodes[reqs[i].map[id]].life = "gone" =>
             \A n \in LiveNodes : nodes[n].id = id => Annotated(nodes'[n])]_vars

\* C6: every identity in the pending set is named by exactly one request
\* that was sent and has not resolved.
C6_PendingHasOneRequest ==
  \A id \in Ids : pending[id] # NoNode => TimesRequested(reqs, id) = 1

\* C7: every identity that enters the pending set eventually leaves it,
\* when the channel calls back for every request sent.
C7_PendingEventuallyLeaves ==
  \A id \in Ids : (pending[id] # NoNode) ~> (pending[id] = NoNode)

\* C8: rendering the same verdict into the same node twice leaves as many
\* engine-created elements as rendering it once, in every view mode.
C8_RenderTwiceSameCount ==
  \A n \in 1..Len(nodes) :
    \A v \in Verdicts \cup {Absent} :
      EngineElements(renderItem(renderItem(nodes[n], v), v))
        = EngineElements(renderItem(nodes[n], v))

\* C9: a container holds either one Analyze control and nothing else, or
\* one badge with at most one Summary control and one rationale element.
C9_ContainerConsistent ==
  \A n \in 1..Len(nodes) :
    LET nd == nodes[n] IN
    IF nd.cont
      THEN \/ nd.analyze = 1 /\ nd.badge = 0 /\ nd.sbtn = 0 /\ nd.reason = 0
           \/ nd.badge = 1 /\ nd.analyze = 0 /\ nd.sbtn <= 1 /\ nd.reason <= 1
      ELSE nd.analyze = 0 /\ nd.badge = 0 /\ nd.sbtn = 0 /\ nd.reason = 0

\* An open item was rendered twice in a row (from the local cache by the
\* fast path, then by the response): its container holds one badge, one
\* Summary control and one rationale element.
C9_Witness ==
  \E n \in LiveNodes :
    /\ nodes[n].badge = 1 /\ nodes[n].sbtn = 1 /\ nodes[n].reason = 1
    /\ nodes[n].loading + nodes[n].related >= 2

\* C10: a get_scores message that names an identity whose cache entry is
\* younger than the TTL is answered from that entry and asks the native
\* host nothing about it; one whose entry is older than the TTL asks the
\* native host about it again.
C10_CacheTTL ==
  [][(bgIn # << >> /\ bgIn' = Tail(bgIn)) =>
       \A id \in SeqSet(Head(bgIn).ids) :
         cache[id].has =>
           LET age == now - cache[id].ts
               asks == Len(native') > Len(native)
               asked == IF asks THEN SeqSet(native'[Len(native')].ids) ELSE {}
               served == IF asks THEN native'[Len(native')].items[id]
                                 ELSE answers'[Len(answers')].items[id]
           IN /\ age < CACHE_TTL_MS => (id \notin asked /\ served = cache[id].value)
              /\ age > CACHE_TTL_MS => id \in asked]_vars

\* One message named an identity stored TTL+1 ago and one stored just now:
\* the native host is asked for the first only, the second is served.
C10_Witness ==
  \E i \in 1..Len(native) : \E f \in Ids, st \in Ids :
    /\ native[i].ids = <<st>>
    /\ cache[st].has /\ now - cache[st].ts > CACHE_TTL_MS
    /\ cache[f].has /\ now - cache[f].ts < CACHE_TTL_MS
    /\ native[i].items[f] = cache[f].value

\* The step runs the timer callback of debouncedScan / a scan pass.
TimerFires == timeouts' < timeouts

ScanPass == frames' < frames

\* The step writes into an item that is in the document.
WroteLive == \E n \in LiveNodes : nodes'[n] # nodes[n]

\* C11: the change notifications that fall inside one debounce window
\* register one timeout, whose callback queues one scan pass; nothing but
\* that callback queues a pass, and the pass runs.
C11_DebounceCoalesces ==
  /\ [][/\ timeouts' <= 1
        /\ (timeouts > 0 /\ ~TimerFires) => (timeouts' = timeouts /\ frames' <= frames)
        /\ TimerFires => (timeouts' = 0 /\ frames' = 1 /\ frames' <= frames + 1)
        /\ frames' > frames => TimerFires]_vars
  /\ (timeouts > 0 ~> (timeouts = 0 /\ frames = 1))
  /\ (frames = 1 ~> frames = 0)

\* Two notifications fell inside one window (the host stripped the
\* container of a rendered item, then removed the item, and no pass ran in
\* between): one timeout is registered.
C11_Witness ==
  /\ timeouts = 1 /\ frames = 0 /\ reqs = << >>
  /\ \E n \in 1..Len(nodes) :
       /\ nodes[n].life = "gone" /\ ~nodes[n].cont /\ ~Annotated(nodes[n])
       /\ nodes[n].id \in Ids
       /\ itemCache[nodes[n].id] # Absent
       /\ pending[nodes[n].id] = NoNode
       /\ released[nodes[n].id] = NoNode

\* C12: at most one scan pass is queued; a pass leaves none queued, and
\* when it wrote into the document (the notifications that arrive during
\* the pass) one timeout is registered for the follow-up pass; a queued
\* pass runs.
C12_OnePassQueued ==
  /\ [][/\ frames' <= 1
        /\ ScanPass => (frames' = 0 /\ ~scheduled')
        /\ (ScanPass /\ WroteLive) => (debounceTimer' /\ timeouts' = 1)
        /\ (frames > 0 /\ ~ScanPass) => frames' = frames]_vars
  /\ (scheduled ~> ~scheduled)

\* Notifications arrived while a pass was queued (an item was inserted and
\* removed before the pass ran): one pass is queued, one timeout registered.
C12_Witness ==
  /\ frames = 1 /\ scheduled /\ timeouts = 1
  /\ \E n \in 1..Len(nodes) : nodes[n].life = "gone"

\* The step is the response branch of request i's callback, for the
\* response map 'items'.
Delivers(i, items) ==
  /\ IsResponse(i)
  /\ LET S == ResponseLoop(Pass(nodes, pending, itemCache), reqs[i], items, 1)
     IN nodes' = S.nodes /\ itemCache' = S.itemCache

\* A container that holds the manual-trigger control alone, enabled and
\* not spinning.
ManualOnly(nd) ==
  /\ nd.cont /\ nd.analyze = 1 /\ nd.astate = "idle"
  /\ nd.badge = 0 /\ nd.sbtn = 0 /\ nd.reason = 0 /\ nd.sstate = "none"

\* C13: when a response leaves an identity of its batch out, or reports it
\* with found = false, the container of the reconciled item holds exactly
\* one manual-trigger control, enabled and not spinning, and nothing else.
C13_UnscoredGetsManualControl ==
  [][\A i \in 1..Len(reqs) : \A items \in [Ids -> Verdicts \cup {Absent}] :
       Delivers(i, items) =>
         \A id \in SeqSet(reqs[i].items) :
           (items[id] = Absent \/ ~Found(items[id])) =>
             ManualOnly(nodes'[reqs[i].map[id]])]_vars

\* An item answered found = false holds the manual-trigger control alone,
\* while the request of a control that the container held before is still
\* in flight.
C13_Witness ==
  \E n \in LiveNodes :
    /\ ManualOnly(nodes[n]) /\ nodes[n].adet = 1
    /\ itemCache[nodes[n].id] = "notfound"
    /\ reqs = << >>

\* C14: a click on the manual-trigger control sends exactly one
\* analyze_article request and disables the control; the control in the
\* container never has two requests in flight, and has one exactly while
\* it is disabled.
C14_OneAnalyzeRequest ==
  /\ [][\A n \in 1..Len(nodes) :
          nodes'[n].aflight > nodes[n].aflight =>
            /\ nodes[n].astate \in {"idle", "error", "failed"}
            /\ nodes'[n].aflight = nodes[n].aflight + 1
            /\ nodes'[n].astate = "busy"
            /\ nodes'[n].adet = nodes[n].adet]_vars
  /\ [](\A n \in 1..Len(nodes) :
          /\ nodes[n].aflight <= 1
          /\ nodes[n].aflight = 1 <=> nodes[n].astate = "busy")

\* The manual-trigger control of an item is disabled and its one request
\* is in flight.
C14_Witness ==
  \E n \in LiveNodes :
    nodes[n].analyze = 1 /\ nodes[n].astate = "busy" /\ nodes[n].aflight = 1

\* C15: when the request of the control in the container resolves, an
\* Analyze control is enabled with the label Error or Failed, or replaced
\* by the badge, and a Summary control is enabled; a control is disabled
\* only while its request is in flight.
C15_ControlReenabled ==
  /\ [][\A n \in 1..Len(nodes) :
          /\ (nodes'[n].aflight < nodes[n].aflight /\ nodes'[n].adet = nodes[n].adet) =>
                \/ nodes'[n].astate \in {"error", "failed"}
                \/ nodes'[n].analyze = 0 /\ nodes'[n].badge = 1
          /\ (nodes'[n].sflight < nodes[n].sflight /\ nodes'[n].sdet = nodes[n].sdet) =>
                nodes'[n].sstate = "idle"]_vars
  /\ [](\A n \in 1..Len(nodes) :
          /\ nodes[n].astate = "busy" => nodes[n].aflight > 0
          /\ nodes[n].sstate = "busy" => nodes[n].sflight > 0)

\* An Analyze request has failed: the control is enabled again, labelled
\* Error, with nothing in flight.
C15_Witness ==
  \E n \in LiveNodes :
    nodes[n].astate = "error" /\ nodes[n].analyze = 1 /\ OnDemand(nodes[n]) = 0

\* C16: a click on the Analyze or the Summary control of an item that
\* yields neither a text of the minimum length nor a URL sends no
\* analyze_article and no summarize_article request.
C16_ShortTextFailsLocally ==
  [][\A n \in 1..Len(nodes) :
       nodes[n].src = "nothing" =>
         /\ nodes'[n].aflight <= nodes[n].aflight
         /\ nodes'[n].sflight <= nodes[n].sflight]_vars

\* C19: a scan pass that meets an item whose only annotation is a
\* disabled manual-trigger control, its identity not pending, names that
\* identity in the request it sends.
C19_DisabledControlNotAnnotated ==
  [][ScanPass =>
       \A n \in LiveNodes :
         (/\ nodes[n].analyze = 1 /\ nodes[n].astate = "busy" /\ nodes[n].badge = 0
          /\ nodes[n].id \in Ids /\ pending[nodes[n].id] = NoNode) =>
           /\ Len(reqs') > Len(reqs)
           /\ nodes[n].id \in SeqSet(reqs'[Len(reqs')].items)]_vars

\* C17: the badge of a scored verdict shows the score rounded to one
\* decimal, and its tier is high from 4.0, middle from 3.0 to below 4.0,
\* low below; 4.6 gives "4.6" and the high tier.
C17_BadgeTextAndTier ==
  (shown # NoBadge /\ score # NoScore) =>
    LET tenths == 10 * shown.text[1] + shown.text[2] IN
    /\ shown.text[2] \in 0..9
    /\ 10 * tenths - 5 <= score /\ score <= 10 * tenths + 5
    /\ shown.tier = "high" <=> score >= 400
    /\ shown.tier = "middle" <=> (300 <= score /\ score < 400)
    /\ shown.tier = "low" <=> score < 300
    /\ score = 460 => (shown.text = <<4, 6>> /\ shown.tier = "high")

\* The score 3.96 is shown as "4.0" in the middle tier.
C17_Witness == score = 396 /\ shown = [text |-> <<4, 0>>, tier |-> "middle"]

\* C18: a scan pass that meets an annotated item in an expanded or detail
\* view, without the rationale element, whose identity has a found verdict
\* with a rationale in the local cache, renders the rationale and names
\* the identity in no request.
C18_ScanRerendersFromCache ==
  [][ScanPass =>
       \A n \in LiveNodes :
         LET nd == nodes[n] IN
         (/\ Annotated(nd) /\ nd.reason = 0
          /\ (HasInfo(nd.view) \/ IsExpanded(nd.view))
          /\ nd.id \in Ids
          /\ Found(itemCache[nd.id]) /\ HasReason(itemCache[nd.id])) =>
           /\ nodes'[n].reason = 1
           /\ Len(reqs') > Len(reqs) => nd.id \notin SeqSet(reqs'[Len(reqs')].items)]_vars

\* The step is a change of the document by the host.
HostStep ==
  \/ Len(nodes') > Len(nodes)
  \/ \E n \in 1..Len(nodes) :
       \/ nodes'[n].life # nodes[n].life
       \/ nodes'[n].view # nodes[n].view
       \/ nodes[n].cont /\ ~nodes'[n].cont

\* C20: a change batch either makes the fast path send a request or
\* leaves the debounce timer set; a set timer fires and queues a pass, and
\* a queued pass runs.
C20_FastPathFallsBack ==
  /\ [][HostStep => (Len(reqs') > Len(reqs) \/ (debounceTimer' /\ timeouts' > 0))]_vars
  /\ (debounceTimer ~> (~debounceTimer /\ scheduled))
  /\ (scheduled ~> (~scheduled /\ frames = 0))

\* The host inserted an item without a resolvable identity after the
\* initial pass: no request was sent and the timer is set.
C20_Witness ==
  /\ reqs = << >> /\ debounceTimer /\ timeouts = 1 /\ frames = 0
  /\ \E n \in LiveNodes : nodes[n].id = NoId



\* The step is the get_scores listener handling the oldest message.
HandlesGetScores == bgIn # << >> /\ bgIn' = Tail(bgIn)

\* C21: a get_scores message carrying ids i1..in and one carrying items
\* whose ids are i1..in are handled alike: in the same cache, both are
\* answered at once with the same map, or both ask the native host for the
\* same ids and keep the same cached part for the response.
C21_ShapesAnsweredAlike ==
  [][HandlesGetScores =>
       \A ids \in IdLists :
         Head(bgIn) \in {Legacy(ids), Rich(ids)} =>
           LET h == GetScores(Legacy(ids), cache, now) IN
           /\ GetScores(Rich(ids), cache, now) = h
           /\ IF h.responds
                THEN /\ native' = native
                     /\ answers' = Append(answers, [items |-> h.items])
                ELSE /\ answers' = answers
                     /\ Len(native') = Len(native) + 1
                     /\ native'[Len(native')].ids = h.missing
                     /\ native'[Len(native')].items = h.items]_vars

\* One message of each shape named the same ids: the native host is asked
\* twice for them, once with the items' metadata and once without.
C21_Witness ==
  \E i \in 1..Len(native), j \in 1..Len(native) :
    /\ native[i].ids = native[j].ids
    /\ native[i].items = native[j].items
    /\ \A k \in 1..Len(native[i].sent) : native[i].sent[k].meta
    /\ \A k \in 1..Len(native[j].sent) : ~native[j].sent[k].meta
    /\ native[i].ids # << >>

\* C22: a native-host channel failure becomes an error value.  No call is
\* left without a settled promise; a call whose native callback has run
\* holds exactly one response, a call still waiting holds none; the
\* response of an analyze_article or semantic_search call after a failure
\* is what the promise resolved with (the error value after a failure), the
\* response of a get_scores call is a map that keeps the cached part and
\* adds nothing the cache does not hold; a call leaves the background only
\* with its one response.
C22_FailureBecomesErrorValue ==
  /\ [](\A k \in 1..Len(calls) :
          /\ calls[k].stage \in {"new", "native", "done"}
          /\ calls[k].stage = "done" => calls[k].responses = 1
          /\ calls[k].stage # "done" => calls[k].responses = 0)
  /\ [][/\ Len(calls') = Len(calls) =>
            \A k \in 1..Len(calls) :
              (calls[k].stage = "native" /\ calls'[k] # calls[k]) =>
                /\ calls'[k].stage = "done"
                /\ calls'[k].responses = 1
                /\ calls'[k].resp.body # "none"
                /\ calls[k].type = "get_scores" =>
                     /\ calls'[k].resp.body = "items"
                     /\ \A id \in Ids :
                          calls'[k].resp.items[id] \in
                            IF id \in SeqSet(calls[k].ids)
                              THEN {Absent, cache'[id].value}
                              ELSE {calls[k].items[id]}
                /\ calls[k].type # "get_scores" =>
                     calls'[k].resp.body \in {"channelError", "hostError", Empty, "reply"}
        /\ Len(calls') < Len(calls) =>
            \E k \in 1..Len(calls) :
              calls' = RemoveAt(calls, k) /\ calls[k].responses = 1]_vars

\* An analyze_article call whose native messaging failed was answered once,
\* with the error value, and stored nothing.
C22_Witness ==
  \E k \in 1..Len(calls) :
    /\ calls[k].type = "analyze_article"
    /\ calls[k].stage = "done" /\ calls[k].responses = 1
    /\ calls[k].resp.body = "channelError"
    /\ \A i \in Ids : ~cache[i].has

\* The statuses that may follow a status of the same request.
Follows(a, b) ==
  CASE a = "none" -> b \in {"loading", "streaming", "success", "error"}
    [] a = "loading" -> b \in {"streaming", "success", "error"}
    [] a = "streaming" -> b \in {"streaming", "success", "error"}
    [] OTHER -> FALSE

\* Request k stays in the background over the step.
Stays(k) == Len(sums') = Len(sums) /\ k \in 1..Len(sums)

\* The step emits a side-panel status for request k.
Emits(k) ==
  \/ sums'[k].last # sums[k].last
  \/ sums'[k].shown # sums[k].shown
  \/ sums'[k].terminals # sums[k].terminals

\* C23: the statuses of a summarize_article request come in the order
\* loading (at most once, first), streaming (any number), one terminal
\* success or error; the one response is sent with the terminal status;
\* nothing is emitted or sent for the request after it; the request leaves
\* the background answered once.
C23_StatusOrder ==
  [][/\ \A k \in 1..Len(sums) : Stays(k) =>
          /\ Emits(k) => Follows(sums[k].last, sums'[k].last)
          /\ sums'[k].terminals <= 1 /\ sums'[k].responses <= 1
          /\ sums'[k].responses = sums'[k].terminals
          /\ sums'[k].pc = "end" <=> Terminal(sums'[k].last)
          /\ Terminal(sums[k].last) => sums'[k] = sums[k]
     /\ Len(sums') < Len(sums) =>
          \E k \in 1..Len(sums) :
            /\ sums' = RemoveAt(sums, k)
            /\ sums[k].responses = 1 /\ sums[k].terminals = 1]_vars

\* A request with a short excerpt and a URL went through loading (the page
\* fetch brought nothing longer), streamed text and ended with success.
C23_Witness ==
  \E k \in 1..Len(sums) :
    /\ sums[k].url /\ sums[k].content = "short"
    /\ sums[k].last = "success" /\ sums[k].responses = 1
    /\ sums[k].fullText >= 1 /\ sums[k].shown = sums[k].fullText

\* C24: a chunk line that fails to parse is dropped: the text so far, the
\* status shown and the position in the stream stay as they are and the
\* loop goes on with the next line; a later line with content is appended
\* to the text so far; the stream is read once and ends with one terminal
\* status.
C24_MalformedChunkDropped ==
  [][\A k \in 1..Len(sums) :
       (Stays(k) /\ sums[k].pc = "decoding" /\ sums[k].lines # << >>) =>
         LET r == sums[k]
             q == sums'[k]
         IN /\ q.lines = Tail(r.lines) /\ q.pc = "decoding"
            /\ q.reads = r.reads /\ q.terminals = 0 /\ q.responses = 0
            /\ Head(r.lines) = "malformed" =>
                 /\ q.fullText = r.fullText /\ q.shown = r.shown
                 /\ q.last = r.last
            /\ Head(r.lines) = "content" =>
                 /\ q.fullText = r.fullText + 1 /\ q.shown = q.fullText
                 /\ q.last = "streaming"]_vars

\* A stream with a line that failed to parse and a line with content ended
\* with success, showing the content.
C24_Witness ==
  \E k \in 1..Len(sums) :
    /\ sums[k].warned >= 1 /\ sums[k].fullText >= 1
    /\ sums[k].last = "success" /\ sums[k].shown = sums[k].fullText
    /\ sums[k].terminals = 1

\* C25: the document never holds more than one tooltip element; a click
\* that shows a text while the element exists (shown with another text, or
\* hidden) puts the text into that element and creates none.
C25_OneTooltip ==
  /\ [](tip.count <= 1 /\ (tip.el <=> tip.count = 1))
  /\ [][(tip.el /\ tip'.timers > tip.timers) =>
          (tip'.count = tip.count /\ tip'.display = "block" /\ tip'.text \in Texts)]_vars

\* The tooltip shows the text of the second badge, clicked while the text
\* of the first was shown: one element, two close handlers on their way.
C25_Witness ==
  /\ tip.count = 1 /\ tip.display = "block" /\ tip.text = "t2"
  /\ tip.timers + tip.handlers = 2

\* C26: a tooltip shown for a click inside the viewport ends inside the
\* viewport on the right and at the bottom; it starts 10 px after the
\* pointer, or, on an axis where that would overflow, ends 10 px before it.
C26_TooltipInsideViewport ==
  [][tip'.timers > tip.timers =>
       /\ tip'.display = "block" /\ tip'.w = click.w /\ tip'.h = click.h
       /\ tip'.left + tip'.w <= MaxView
       /\ tip'.top + tip'.h <= MaxView
       /\ IF click.x + 10 + click.w > MaxView
            THEN tip'.left + tip'.w = click.x - 10
            ELSE tip'.left = click.x + 10
       /\ IF click.y + 10 + click.h > MaxView
            THEN tip'.top + tip'.h = click.y - 10
            ELSE tip'.top = click.y + 10]_vars

\* A tooltip shown for a click in the bottom right corner was flipped on
\* both axes.
C26_Witness ==
  /\ click = [x |-> MaxView, y |-> MaxView, w |-> MaxSize, h |-> MaxSize]
  /\ tip.display = "block" /\ tip.w = MaxSize /\ tip.h = MaxSize
  /\ tip.left = MaxView - 10 - MaxSize /\ tip.top = MaxView - 10 - MaxSize

\* The step is a call of ensureBadgeContainer (the host leaves the number of
\* containers alone or takes it to zero with the parts unchanged).
CallsEnsure ==
  /\ article'.parts = article.parts /\ article'.titleOnly = article.titleOnly
  /\ article'.containers >= article.containers

\* C27: a call of ensureBadgeContainer on an item that holds a container
\* changes nothing, a call on an item without one creates one; an item
\* never holds two.
C27_EnsureContainerIdempotent ==
  /\ [](article.containers <= 1 /\ (article.containers = 0 <=> article.at = "none"))
  /\ [][CallsEnsure =>
          /\ article.containers = 1 => article' = article
          /\ article.containers = 0 => article'.containers = 1]_vars

\* The container of a title-only item sits in the metadata row although the
\* host has since added an info row: later calls found it and made no other.
C27_Witness ==
  /\ article.containers = 1 /\ article.at = "inMetadata"
  /\ article.titleOnly /\ article.parts = Parts

\* C28: a new container of a title-only item goes into the metadata row
\* when there is one and otherwise after the title link, never into the
\* title container while a title link exists; without both, and in every
\* other view, it goes into the info row, else into the title container,
\* else to the front of the item.
C28_InsertionChain ==
  [][(article.containers = 0 /\ article'.containers = 1) =>
       LET has(p) == p \in article.parts IN
       /\ (article.titleOnly /\ has("metadata")) => article'.at = "inMetadata"
       /\ (article.titleOnly /\ ~has("metadata") /\ has("titleLink")) =>
            article'.at = "afterTitleLink"
       /\ (~article.titleOnly \/ (~has("metadata") /\ ~has("titleLink"))) =>
            article'.at = IF has("entryInfo") THEN "inEntryInfo"
                        ELSE IF has("titleContainer") THEN "inTitleContainer"
                        ELSE "inEntry"]_vars

\* A title-only item with title link and title container but no metadata
\* row holds its container after the title link.
C28_Witness ==
  /\ article.titleOnly /\ article.parts = {"titleLink", "titleContainer"}
  /\ article.containers = 1 /\ article.at = "afterTitleLink"

\* C29: getEntryId returns the first of: the element's own entry-id, a
\* descendant's entry-id, the decoded /entry/ segment of a permalink, the
\* data-id, the element id without the suffix _main; it returns
\* unresolvable when there is none of them.
C29_ResolutionOrder ==
  resolved # Unset =>
    /\ resolved.outcome \in {"id", NoId}
    /\ resolved =
         IF probe.own # << >> THEN Returns(probe.own)
         ELSE IF probe.child.value # << >> THEN Returns(probe.child.value)
         ELSE IF probe.link.value # << >>
           THEN Returns(decodeURIComponent(probe.link.value))
         ELSE IF probe.dataId # << >> THEN Returns(probe.dataId)
         ELSE IF probe.elemId # << >> THEN Returns(StripMain(probe.elemId))
         ELSE ReturnsNull

\* C30: the background never has two native-host get_scores requests in
\* flight that include the same identity, whatever the arrival order of the
\* get_scores messages naming it.
C30_OneNativeRequestPerId ==
  \A i, j \in 1..Len(native) :
    i # j => SeqSet(native[i].ids) \cap SeqSet(native[j].ids) = {}

\* C31: a pass that meets an item without annotation, whose identity has a
\* verdict in the local cache, renders the item from the cache in that same
\* pass, be it the fast path on the items a change batch inserted or a full
\* scan (passes that end in an exception aside).
C31_CachedNodeRenderedInPass ==
  [][/\ (ScanPass /\ ~uncaught') =>
          \A n \in LiveNodes :
            (/\ nodes[n].id \in Ids
             /\ ~Annotated(nodes[n])
             /\ itemCache[nodes[n].id] # Absent) => Annotated(nodes'[n])
     /\ Len(nodes') > Len(nodes) =>
          \/ \E n \in (Len(nodes) + 1)..Len(nodes') : nodes'[n].id = BadId
          \/ \A n \in (Len(nodes) + 1)..Len(nodes') :
               (nodes'[n].id \in Ids /\ itemCache[nodes'[n].id] # Absent) =>
                 Annotated(nodes'[n])]_vars

\* A list page of one resolvable identity whose items the host inserts,
\* replaces and strips, when timers fire, queued passes run and every
\* request is answered with a response; the host may stop changing the
\* document at any time.
hostAddSame == hostAdd(MaxNodes, ItemKinds, ListViews)

NextAnnot ==
  \/ scanEntries
  \/ debounceFire
  \/ hostAddSame
  \/ hostRemove
  \/ hostStrip
  \/ responseList

SpecAnnot ==
  /\ Init /\ [][NextAnnot]_vars
  /\ WF_vars(scanEntries)
  /\ WF_vars(debounceFire)
  /\ WF_vars(responseList)

\* C32: every item with a resolvable identity that is in the document is
\* eventually annotated (badge or Analyze control) or removed by the host,
\* once the requests in flight have been answered and whether or not the
\* host changes the document again.
C32_EventuallyAnnotated ==
  \A n \in 1..MaxNodes :
    (n \in LiveNodes /\ nodes[n].id \in Ids)
      ~> (n \in LiveNodes => Annotated(nodes[n]))

\* --------------------------------- the revision with the summary panel
\* src/extension/content.js (second script): no fast path, every change
\* notification calls debouncedScan(), and a found verdict is shown with a
\* summary panel in the content body (the node's header field).
\* ensureSummaryPanel(el, text, verdict): without a content body nothing;
\* otherwise the existing panel is removed and a new one inserted.
ensureSummaryPanel(S, n) ==
  IF HasBody(S.nodes[n].view)
    THEN [S EXCEPT !.nodes[n].header = 1,
                   !.wrote = @ \/ S.nodes[n].life = "live"]
    ELSE S

\* renderItem of that revision: the Analyze control, or the badge and the
\* Summary control followed by the panel when the verdict has a summary.
RenderWithPanel(S, n, item) ==
  LET c == ClearContainer(S.nodes[n])
      S1 == [S EXCEPT !.wrote = @ \/ S.nodes[n].life = "live"]
  IN
  IF item = Absent \/ ~Found(item)
    THEN [S1 EXCEPT !.nodes[n] = AnalyzeControl(c)]
    ELSE
      LET S2 == [S1 EXCEPT !.nodes[n] =
                   [c EXCEPT !.badge = @ + 1, !.sbtn = @ + 1, !.sstate = "idle"]]
      IN IF HasSummary(item) THEN ensureSummaryPanel(S2, n) ELSE S2

\* The body of the for loop of that revision's scanEntries.
ScanEntryWithPanel(S, n) ==
  LET nd == S.nodes[n]
      id == getEntryId(nd)
  IN
  IF S.thrown THEN S
  ELSE IF id = BadId THEN [S EXCEPT !.thrown = TRUE]
  ELSE IF id = NoId THEN S
  ELSE IF S.pending[id] # NoNode THEN S
  ELSE IF Annotated(nd) THEN
    LET item == S.itemCache[id] IN
    IF item # Absent /\ Found(item) /\ (HasSummary(item) \/ HasReason(item))
      THEN ensureSummaryPanel(S, n)
      ELSE S
  ELSE [S EXCEPT !.items = Append(@, id),
                 !.map[id] = n,
                 !.pending[id] = n]

RECURSIVE ScanLoopWithPanel(_, _)
ScanLoopWithPanel(S, k) ==
  IF k > Len(S.nodes) THEN S
  ELSE ScanLoopWithPanel(IF S.nodes[k].life = "live" THEN ScanEntryWithPanel(S, k) ELSE S,
                         k + 1)

\* requestAnimationFrame callback of that revision.
scanEntriesWithPanel ==
  /\ frames > 0
  /\ frames' = frames - 1
  /\ \E S \in {ScanLoopWithPanel(Pass(nodes, pending, itemCache), 1)} :
       /\ nodes' = S.nodes
       /\ pending' = S.pending
       /\ itemCache' = S.itemCache
       /\ reqs' = Sent(S, reqs)
       /\ debounceTimer' = Armed(S.wrote)
       /\ timeouts' = Timeouts(S.wrote)
       /\ uncaught' = S.thrown
  /\ scheduled' = FALSE
  /\ UNCHANGED released
  /\ UNCHANGED offPage

\* The response branch of its get_scores callback.
RECURSIVE ResponseLoopWithPanel(_, _, _, _)
ResponseLoopWithPanel(S, req, items, k) ==
  IF k > Len(req.items) THEN S
  ELSE
    LET id == req.items[k]
        entry == IF req.map[id] # NoNode THEN req.map[id] ELSE S.pending[id]
        S1 == IF items[id] # Absent THEN [S EXCEPT !.itemCache[id] = items[id]] ELSE S
        S2 == IF entry # NoNode THEN RenderWithPanel(S1, entry, items[id]) ELSE S1
    IN ResponseLoopWithPanel([S2 EXCEPT !.pending[id] = NoNode], req, items, k + 1)

responseWithPanel ==
  \E i \in 1..Len(reqs) :
    \E items \in [Ids -> Verdicts \cup {Absent}] :
      /\ \A id \in Ids : id \notin SeqSet(reqs[i].items) => items[id] = Absent
      /\ finish(ResponseLoopWithPanel(Pass(nodes, pending, itemCache), reqs[i], items, 1),
                i, released)

\* The host inserts a content item, in any view: the observer calls
\* debouncedScan().
hostAddOpen ==
  \E id \in ItemKinds, v \in Views :
    /\ Len(nodes) < MaxNodes
    /\ removalOnly(Append(nodes, NewNode(id, v)))

\* The host stops after the items it inserted; timers fire, queued passes
\* run and every request is answered with a response.
NextPanel ==
  \/ scanEntriesWithPanel
  \/ debounceFire
  \/ hostAddOpen
  \/ responseWithPanel

SpecPanel ==
  /\ Init /\ [][NextPanel]_vars
  /\ WF_vars(scanEntriesWithPanel)
  /\ WF_vars(debounceFire)
  /\ WF_vars(responseWithPanel)

\* C33: unless the host keeps changing the document, from some point on
\* no scan pass is queued and no debounce timer is set: the engine's own
\* writes into the document do not keep the scanning going.
C33_FinitelyManyScans ==
  \/ []<><<HostStep>>_vars
  \/ <>[](frames = 0 /\ timeouts = 0)

\* ------------------------------------- Analyze, end to end with the cache
\* What the native host can reply to analyze_article: a verdict, or a
\* score without the found field.
Scored == "scored"

Replies == Verdicts \cup {Scored}

\* resp && (resp.found || resp.score !== undefined)
Succeeded(resp) == Found(resp) \/ resp = Scored

\* resultItem of the Analyze callback: { id, found: true, score, data }.
ResultItem(resp) == IF resp = Scored THEN "plain" ELSE resp

\* What the page and the background cache leave alone.
offLink ==
  <<badgeVars, now, bgIn, native, answers, callVars, sumVars, tipVars, placeVars, idVars,
    sideVars>>

\* An analyze_article request of item n from the handler in the background
\* (sendNativeMessage, mergeCache unless resp.error, sendResponse) to the
\* callback of the Analyze control in the page.
analyzeRoundTrip ==
  \E n \in 1..Len(nodes), cur \in BOOLEAN, outcome \in NativeOutcomes, v \in Replies :
    /\ IF cur THEN nodes[n].aflight > 0 ELSE nodes[n].adet > 0
    /\ outcome # "reply" => v = Scored
    /\ LET id == getEntryId(nodes[n])
           r == sendNativeMessage(outcome)
           resp == IF r = "reply" THEN v ELSE r
           nd == IF cur THEN [nodes[n] EXCEPT !.aflight = @ - 1]
                        ELSE [nodes[n] EXCEPT !.adet = @ - 1]
           wrote == Succeeded(resp) /\ nd.life = "live"
       IN
       /\ cache' = IF HasError(resp) THEN cache
                    ELSE mergeCache(cache, [j \in Ids |-> IF j = id THEN resp ELSE Absent],
                                    now)
       /\ nodes' = [nodes EXCEPT ![n] =
                      IF Succeeded(resp) THEN renderItem(nd, ResultItem(resp))
                      ELSE IF cur THEN Settle(nd, "error") ELSE nd]
       /\ itemCache' = IF Succeeded(resp) THEN [itemCache EXCEPT ![id] = ResultItem(resp)]
                        ELSE itemCache
       /\ debounceTimer' = Armed(wrote)
       /\ timeouts' = Timeouts(wrote)
    /\ uncaught' = FALSE
    /\ UNCHANGED <<pending, reqs, scheduled, frames, released>>
    /\ UNCHANGED offLink

\* A get_scores request of the page from the handler in the background
\* (getCached, the native host for the missing identities, mergeCache,
\* sendResponse) to its callback in the page.  The native host knows no
\* score of its own for these items.
scoresRoundTrip ==
  \E i \in 1..Len(reqs), fetched \in [Ids -> {"notfound", Absent}] :
    \E h \in {GetScores(Rich(reqs[i].items), cache, now)} :
      /\ \A id \in Ids : fetched[id] # Absent => (~h.responds /\ id \in SeqSet(h.missing))
      /\ cache' = IF h.responds THEN cache ELSE mergeCache(cache, fetched, now)
      /\ \E S \in {ResponseLoop(Pass(nodes, pending, itemCache), reqs[i],
                                 Spread(h.items, fetched), 1)} :
           /\ nodes' = S.nodes
           /\ pending' = S.pending
           /\ itemCache' = S.itemCache
           /\ debounceTimer' = Armed(S.wrote)
           /\ timeouts' = Timeouts(S.wrote)
           /\ uncaught' = S.thrown
      /\ reqs' = RemoveAt(reqs, i)
      /\ UNCHANGED <<scheduled, frames, released>>
      /\ UNCHANGED offLink

NextAnalyze ==
  \/ scanEntries
  \/ debounceFire
  \/ hostAddArticle
  \/ hostStrip
  \/ clickAnalyze
  \/ analyzeRoundTrip
  \/ scoresRoundTrip
  \/ tick

SpecAnalyze == Init /\ [][NextAnalyze]_vars

\* C34: once the local cache holds the found verdict of a successful
\* Analyze request (the native host has no score of its own for the
\* item), a pass that annotates an item of that identity from the local
\* cache, and a get_scores callback that reconciles it from an entry of
\* the background cache younger than the TTL, render the badge and no
\* Analyze control.
C34_AnalyzedNeverReverts ==
  [][/\ \A n \in LiveNodes :
          (/\ nodes[n].id \in Ids
           /\ Found(itemCache[nodes[n].id])
           /\ ~Annotated(nodes[n]) /\ Annotated(nodes'[n])
           /\ reqs' = reqs) =>
            (nodes'[n].badge = 1 /\ nodes'[n].analyze = 0)
     /\ \A i \in 1..Len(reqs) :
          Resolves(i) =>
            \A id \in SeqSet(reqs[i].items) :
              (Found(itemCache[id]) /\ IsFresh(cache[id], now)) =>
                LET n == reqs[i].map[id] IN
                nodes'[n].badge = 1 /\ nodes'[n].analyze = 0]_vars

\* ------------------------------------------------------- the side panel
\* What the panel displays: the title element and the content element,
\* which holds nothing, the spinner, an error block or a rendered summary.
Display(title, content, kind) == State(title, content, kind)

\* `${status || ''}::${title || ''}::${content || ''}`
Key(m) == <<m.status, m.title, m.content>>

\* _renderPanel(title, content, status)
_renderPanel(p, m) ==
  LET title == IF m.title # 0 THEN m.title ELSE p.shown.title IN
  [p EXCEPT !.shown =
     IF m.status = "loading" THEN Display(title, "", "loading")
     ELSE IF m.status = "error" THEN Display(title, m.content, "error")
     ELSE IF m.status = "streaming" \/ m.content # ""
       THEN Display(title, m.content, "summary")
     ELSE [@ EXCEPT !.title = title]]

\* The part of updatePanel and of the timer callback after the queue:
\* nothing for the key rendered last, _renderPanel otherwise.
RenderOnce(p, m) ==
  IF Key(m) = p.lastRenderedKey THEN p
  ELSE _renderPanel([p EXCEPT !.lastRenderedKey = Key(m)], m)

\* _scheduleRender(title, content, status)
_scheduleRender(p, m) == [p EXCEPT !.pendingRender = m, !.renderTimer = TRUE]

\* updatePanel(title, content, status), on an update_sidepanel message.
updatePanel(p, m) ==
  LET got == [p EXCEPT !.received = m] IN
  IF m.status = "streaming" THEN _scheduleRender(got, m)
  ELSE RenderOnce([got EXCEPT !.renderTimer = FALSE, !.pendingRender = NoState], m)

\* The setTimeout callback of _scheduleRender.
RenderQueued(p) ==
  LET q == [p EXCEPT !.renderTimer = FALSE, !.pendingRender = NoState] IN
  IF p.pendingRender = NoState THEN q ELSE RenderOnce(q, p.pendingRender)

\* chrome.runtime.sendMessage({ type: 'update_sidepanel', ...state }): the
\* panel's listener runs when its document is loaded, nobody hears it
\* otherwise.
Broadcast(p, m) == IF p.open THEN updatePanel(p, m) ELSE p

\* --------------------------------------- the Summary actions of a window
\* A Summary action of the window: the article's number and the request
\* (pc "local", then "localEnd": the content script fails it without a
\* request).
Job(title, r) == [title |-> title, r |-> r]

\* The state a request's updateSidePanelState call carries.
StateOf(job) ==
  State(job.title,
        IF job.r.last \in {"streaming", "success"}
          THEN (IF job.r.fullText = 0 THEN "" ELSE "text")
          ELSE IF job.r.last = "loading" THEN "fetching" ELSE "message",
        job.r.last)

\* The content script's test contentText.length < 100 && !url, where
\* contentText is '' or the item's text over 50 characters.
LocalFailure(content, url) == ~url /\ content # "long"

offWindow ==
  <<pageVars, bgVars, badgeVars, callVars, tipVars, placeVars, idVars>>

\* updateSidePanelState(windowId, state) of the job that is now sums'[k].
Update(k) ==
  /\ summaryStates' = StateOf(sums'[k])
  /\ panel' = Broadcast(panel, StateOf(sums'[k]))

\* The user clicks Summary on the next article: the content script sends
\* open_sidepanel, whose handler records the loading state and opens the
\* panel, and then summarize_article unless it fails the action locally.
\* The messages of a tab are handled in the order it sent them.
openSidepanel ==
  /\ Len(sums) < MaxOverlap
  /\ \A k \in 1..Len(sums) : sums[k].r.pc # "start"
  /\ \E content \in Lengths, url \in BOOLEAN, local \in BOOLEAN :
       /\ local => LocalFailure(content, url)
       /\ (content = "tiny" /\ ~url) => local
       /\ sums' = Append(sums, Job(Len(sums) + 1,
                    [NewSum(content, url) EXCEPT !.pc = IF local THEN "local" ELSE "start"]))
  /\ summaryStates' = State(Len(sums) + 1, "", "loading")
  /\ panel' = Broadcast(panel, State(Len(sums) + 1, "", "loading"))
  /\ UNCHANGED offWindow

\* The timer of the local failure: the content script itself sends
\* update_sidepanel with the error.
localError ==
  \E k \in 1..Len(sums) :
    /\ sums[k].r.pc = "local"
    /\ sums' = [sums EXCEPT ![k].r = [@ EXCEPT !.pc = "localEnd", !.last = "error"]]
    /\ panel' = Broadcast(panel, State(sums[k].title, "message", "error"))
    /\ UNCHANGED summaryStates
    /\ UNCHANGED offWindow

\* The summarize_article listener up to its first await.
windowStart ==
  \E k \in 1..Len(sums) :
    /\ sums[k].r.pc = "start"
    /\ IF sums[k].r.content # "long" /\ sums[k].r.url
         THEN /\ sums' = [sums EXCEPT ![k].r =
                    [updateSidePanelState(@, "loading") EXCEPT !.pc = "fetching"]]
              /\ Update(k)
         ELSE IF sums[k].r.content = "tiny"
           THEN sums' = [sums EXCEPT ![k].r = onError(@)] /\ Update(k)
           ELSE /\ sums' = [sums EXCEPT ![k].r.pc = "settings"]
                /\ UNCHANGED <<summaryStates, panel>>
    /\ UNCHANGED offWindow

\* A chunk with content arrives on the stream of request k: onChunk.
windowChunk ==
  \E k \in 1..Len(sums) :
    /\ sums[k].r.pc \in {"fetching", "settings", "reading"}
    /\ sums[k].r.reads < MaxReads
    /\ sums' = [sums EXCEPT ![k].r =
         onChunk([@ EXCEPT !.pc = "reading", !.reads = @ + 1, !.fullText = @ + 1])]
    /\ Update(k)
    /\ UNCHANGED offWindow

\* Request k ends: onComplete at the end of its stream, which may have
\* carried no content, onError for any failure on the way.
windowEnd ==
  \E k \in 1..Len(sums), ok \in BOOLEAN :
    /\ sums[k].r.pc \in {"fetching", "settings", "reading"}
    /\ sums' = [sums EXCEPT ![k].r = IF ok THEN onComplete(@) ELSE onError(@)]
    /\ Update(k)
    /\ UNCHANGED offWindow

\* The content script's callback of summarize_article: it sends
\* update_sidepanel itself, success for a response with a non-empty
\* summary and an error for any other.
summaryReply ==
  \E k \in 1..Len(sums) :
    /\ sums[k].r.pc = "end"
    /\ sums' = [sums EXCEPT ![k].r.pc = "replied"]
    /\ panel' = Broadcast(panel,
         IF sums[k].r.last = "success" /\ sums[k].r.fullText # 0
           THEN State(sums[k].title, "text", "success")
           ELSE State(sums[k].title, "message", "error"))
    /\ UNCHANGED summaryStates
    /\ UNCHANGED offWindow

\* The panel's document has loaded: it sends sidepanel_ready and the
\* background replays the state recorded for the window.
sidepanelReady ==
  /\ ~panel.open
  /\ panel' = IF summaryStates # NoState
                THEN updatePanel([panel EXCEPT !.open = TRUE], summaryStates)
                ELSE [panel EXCEPT !.open = TRUE]
  /\ UNCHANGED <<sums, summaryStates>>
  /\ UNCHANGED offWindow

\* The user closes the panel: its document is gone.
panelClose ==
  /\ panel.open
  /\ panel' = NoPanel
  /\ UNCHANGED <<sums, summaryStates>>
  /\ UNCHANGED offWindow

\* The render timer of the panel fires.
renderTimerFires ==
  /\ panel.renderTimer
  /\ panel' = RenderQueued(panel)
  /\ UNCHANGED <<sums, summaryStates>>
  /\ UNCHANGED offWindow

NextWindow ==
  \/ openSidepanel
  \/ localError
  \/ windowStart
  \/ windowChunk
  \/ windowEnd
  \/ summaryReply
  \/ sidepanelReady
  \/ panelClose
  \/ renderTimerFires

SpecWindow == Init /\ [][NextWindow]_vars

\* The action sent summarize_article.
IsRequest(job) == job.r.pc \notin {"local", "localEnd"}

\* The action has reached its terminal status.
Ended(job) == job.r.pc \in {"end", "replied", "localEnd"}

\* C35: while the Summary actions of the window are all summarize
\* requests, the state recorded for the window is that of the request
\* started last, and once every request has ended it is the terminal state
\* of that request.
C35_StateOfLatestRequest ==
  (sums # << >> /\ \A k \in 1..Len(sums) : IsRequest(sums[k])) =>
    LET last == sums[Len(sums)] IN
    /\ summaryStates.title = last.title
    /\ (\A k \in 1..Len(sums) : Ended(sums[k])) =>
         summaryStates.status = last.r.last

\* C36: a panel that becomes ready when every Summary action of the window
\* has ended, the local failure included, is replayed a terminal state of
\* the window, never the loading state.
C36_ReplayIsTerminal ==
  [][(/\ ~panel.open /\ panel'.open
      /\ sums # << >>
      /\ \A k \in 1..Len(sums) : Ended(sums[k])) =>
        (/\ panel'.received # NoState
         /\ Terminal(panel'.received.status))]_vars

\* ---------------------------------------------------- an annotated node
\* The node carries a badge or an Analyze control, and is not an opened
\* item whose cached verdict has a reason that it does not display.
Settled(n) ==
  LET nd == nodes[n] IN
  /\ nd.life = "live"
  /\ nd.badge > 0 \/ nd.analyze > 0
  /\ ~(/\ nd.id \in Ids
        /\ itemCache[nd.id] # Absent
        /\ Found(itemCache[nd.id]) /\ HasReason(itemCache[nd.id])
        /\ HasInfo(nd.view) /\ nd.reason = 0)

\* The step is a change batch of the host that reaches the existing node n
\* alone.
Touches(n) ==
  /\ Len(nodes') = Len(nodes)
  /\ nodes'[n].view # nodes[n].view

\* The requests the step sent name the identity.
Requests(id) ==
  \E i \in 1..Len(reqs') : i > Len(reqs) /\ id \in SeqSet(reqs'[i].items)

\* The passes of the engine over an item that the host inserts, opens and
\* re-renders and that get_scores answers.
NextSettled ==
  \/ scanEntries
  \/ debounceFire
  \/ hostAddItem
  \/ hostTouchItem
  \/ hostStrip
  \/ responseItem

SpecSettled == Init /\ [][NextSettled]_vars

\* C37: a full scan leaves a settled node as it is, and neither the pending
\* set nor the local cache changes at, nor a request names, an identity
\* whose live nodes are all settled; the fast path over a node that carries
\* a badge or an Analyze control writes nothing into it, changes neither
\* the pending set nor the local cache and sends no request.
C37_SettledNodeUntouched ==
  [][/\ ScanPass =>
          /\ \A n \in 1..Len(nodes) : Settled(n) => nodes'[n] = nodes[n]
          /\ \A id \in Ids :
               (/\ \E n \in LiveNodes : nodes[n].id = id
                /\ \A n \in LiveNodes : nodes[n].id = id => Settled(n)) =>
                 /\ pending'[id] = pending[id]
                 /\ itemCache'[id] = itemCache[id]
                 /\ ~Requests(id)
     /\ \A n \in 1..Len(nodes) :
          (/\ Touches(n)
           /\ nodes[n].life = "live"
           /\ nodes[n].badge > 0 \/ nodes[n].analyze > 0) =>
            /\ nodes'[n] = [nodes[n] EXCEPT !.view = nodes'[n].view]
            /\ pending' = pending
            /\ itemCache' = itemCache
            /\ reqs' = reqs]_vars

\* The pass that the rendering of a response queued has run over the
\* opened item, which displays its badge and reason, and nothing is queued.
C37_Witness ==
  /\ frames = 0 /\ ~scheduled /\ ~debounceTimer /\ reqs = << >>
  /\ \E n \in LiveNodes :
       Settled(n) /\ HasInfo(nodes[n].view) /\ nodes[n].badge > 0 /\ nodes[n].reason > 0

\* ------------------------------------------- the side panel on its own
\* The update_sidepanel messages the extension sends: the loading states of
\* open_sidepanel and of the fetch, the chunks with the text so far, the
\* completed summary (empty when the stream carried no content) and the
\* errors.
Messages ==
  {State(t, c, "loading") : t \in 1..MaxOverlap, c \in {"", "fetching"}}
    \cup {State(t, c, "streaming") : t \in 1..MaxOverlap, c \in {"text", "more text"}}
    \cup {State(t, c, "success") : t \in 1..MaxOverlap, c \in {"", "text", "more text"}}
    \cup {State(t, "message", "error") : t \in 1..MaxOverlap}

\* The listener of the panel receives update_sidepanel.
panelMessage ==
  /\ panel.open
  /\ \E m \in Messages : panel' = updatePanel(panel, m)
  /\ UNCHANGED <<sums, summaryStates>>
  /\ UNCHANGED offWindow

NextRender ==
  \/ sidepanelReady
  \/ panelMessage
  \/ renderTimerFires
  \/ panelClose

\* A timer that is set fires.
SpecRender == Init /\ [][NextRender]_vars /\ WF_vars(renderTimerFires)

\* What the panel displays when it shows message m.
Showing(m) ==
  Display(m.title, IF m.status = "loading" THEN "" ELSE m.content,
          IF m.status \in {"streaming", "success"} THEN "summary" ELSE m.status)

\* C38: unless messages keep arriving (or the panel keeps being closed and
\* opened), the panel ends up displaying the last message it received; and
\* a non-streaming message leaves no earlier streaming update queued, so
\* none is rendered after it.
C38_ShowsLastMessage ==
  /\ \/ []<><<panelMessage \/ panelClose \/ sidepanelReady>>_vars
     \/ <>[](panel.received # NoState => panel.shown = Showing(panel.received))
  /\ [][\A m \in Messages :
          (panel.open /\ m.status # "streaming" /\ panel' = updatePanel(panel, m)) =>
            (~panel'.renderTimer /\ panel'.pendingRender = NoState)]_vars

====
